---- MODULE Spec2Model ----
(***************************************************************************)
(* Model of the Ark wallet backend (pingu-73/ark-web-app, backend/src):    *)
(*   - the process-wide wallet state (ledger `transactions`, `balance`)    *)
(*     with AppState::recalculate_balance and the operations that write    *)
(*     the ledger or the balance;                                          *)
(*   - the off-chain VTXO manager (coordinator refresh, cache, readers)    *)
(*     and the off-chain facade's send_vtxo.                               *)
(* Amounts are satoshis.  u64/i64 arithmetic is modelled on unbounded      *)
(* integers; every amount the model draws is far below the 64-bit range.   *)
(***************************************************************************)
EXTENDS Integers, Sequences, FiniteSets, TLC

VARIABLES
    transactions,   \* APP_STATE.transactions : Vec<TransactionResponse>
    balance,        \* APP_STATE.balance : WalletBalance
    rc,             \* the task running recalculate_balance (locks held while pc # "idle")
    last_result,    \* <<balance>> produced by the latest completed recalculation, or <<>>
    ark_client,     \* ArkGrpcService.ark_client is Some(client)
    client_guard,   \* the tokio Mutex around ark_client: "free" or "stuck"
    last_op,        \* the code that wrote the balance last
    stale_updates,  \* consecutive update_app_state runs that only added to the balance
    vtxo_cache,     \* VtxoManager.vtxo_cache : address -> VtxoState
    now,            \* Utc::now().timestamp()
    ret,            \* what the get_spendable_vtxos call of this step returned
    sv,             \* outcome of the ArkOffChainService::send_vtxo call of this step
    cache_lock,     \* the RwLock around vtxo_cache: writer task (0 = none), readers
    rf,             \* refresh tasks inside get_spendable_vtxos
    rd,             \* a task reading the cache
    last_written,   \* cache content written by the latest finished refresh
    tb,             \* the latest ArkTransactionBuilder call and its outcome
    rnd,            \* the task inside RoundCoordinator::participate
    pr,             \* the task inside the participate_in_round API handler
    ex,             \* the latest ExitManager::exit_vtxo call and its outcome
    grpc_client,    \* ArkGrpcService.grpc_client is Some(client)
    ec,             \* the latest ExitManager::check_exit_conditions call and its outcome
    ee,             \* the task inside ExitManager::emergency_exit_all
    feed,           \* the polling task spawned by a SubscriptionManager subscription
    chan,           \* the mpsc channel between that task and the consumer's stream
    cr,             \* the latest VtxoManager::check_expiry_and_renew call and its outcome
    app_locks,      \* holders of the Mutexes around APP_STATE.balance and APP_STATE.transactions
    ua,             \* a task inside ArkGrpcService::update_app_state
    cs,             \* a task inside AppState::can_send
    ga,             \* a task inside services::wallet::get_available_balance
    oc,             \* a task inside services::transactions::get_onchain_transactions
    sm,             \* the latest ScriptManager call and the scripts it returned
    rt,             \* the tasks inside services::transactions::create_redeem_transaction
    snd,            \* the tasks inside ArkOffChainService::send_vtxo
    txids,          \* the txid of each entry of APP_STATE.transactions, in ledger order
    ft,             \* the tasks inside get_transaction_history / get_onchain_transactions
    cl,             \* an error of client.board and what each round-participation path makes of it
    td              \* the latest calculate_transaction_details call of the on-chain builder and its outcome

walletVars == <<transactions, balance>>
recalcVars == <<rc, last_result>>
clientVars == <<ark_client, client_guard>>

histVars == <<last_op, stale_updates>>

vtxoVars == <<vtxo_cache, now, ret, sv>>
lockVars == <<cache_lock, rf, rd, last_written>>
callVars == <<tb, rnd, pr, ex>>
scanVars == <<grpc_client, ec, ee>>
feedVars == <<feed, chan>>
renewVars == <<cr>>
taskVars == <<app_locks, ua, cs, ga, oc>>
scriptVars == <<sm>>
redeemVars == <<rt>>
sendVars == <<snd>>
txidVars == <<txids, ft>>
classifyVars == <<cl>>
detailVars == <<td>>

vars == <<transactions, balance, rc, last_result, ark_client, client_guard,
         last_op, stale_updates, vtxo_cache, now, ret, sv,
         cache_lock, rf, rd, last_written, callVars, scanVars, feedVars, renewVars,
         taskVars, scriptVars, redeemVars, sendVars, txidVars, classifyVars, detailVars>>

----------------------------------------------------------------------------
(* Bounds *)

MaxLen == 3         \* longest ledger drawn as input of recalculate_balance
MaxLedger == 2      \* the wallet operations stop appending at this ledger length
MaxHistory == 2     \* longest transaction history the coordinator returns
MaxStaleUpdates == 1 \* update_app_state runs in a row whose first balance call failed
MaxOutpoints == 2   \* most outpoints in one VTXO group of a coordinator answer
MaxNow == 3         \* the clock stops here
FeedCapacity == 2   \* capacity of a feed's channel (100 in subscription_manager.rs:21, 102, 201)
MaxRedeems == 2     \* create_redeem_transaction calls made, each by its own task
MaxTxids == 3       \* the txid-tracking operations stop appending at this ledger length
MaxUtxos == 2       \* most UTXOs offered to calculate_transaction_details

----------------------------------------------------------------------------
(* Data model: models/wallet.rs *)

SomeTrue  == "Some(true)"
SomeFalse == "Some(false)"
NoneSettled == "None"

SettledValues == {SomeTrue, SomeFalse, NoneSettled}

TransactionResponse(amount, type_name, is_settled) ==
    [amount |-> amount, type_name |-> type_name, is_settled |-> is_settled]

WalletBalance(c, tp, up, im, tot) ==
    [confirmed |-> c, trusted_pending |-> tp, untrusted_pending |-> up,
     immature |-> im, total |-> tot]

ZeroBalance == WalletBalance(0, 0, 0, 0, 0)

NoResult == <<>>

Abs(x) == IF x < 0 THEN -x ELSE x

Max(x, y) == IF x >= y THEN x ELSE y

RECURSIVE SeqsUpTo(_, _)
SeqsUpTo(S, n) ==
    IF n = 0 THEN {<<>>}
    ELSE LET shorter == SeqsUpTo(S, n - 1)
         IN  shorter \cup {Append(s, x) : s \in {t \in shorter : Len(t) = n - 1}, x \in S}

----------------------------------------------------------------------------
(* AppState::recalculate_balance, services/mod.rs:141-199 *)

\* A bug variant of the first pass: the subtraction is not guarded.
SettledStep_AlwaysSubtract(b, tx) ==
    IF tx.is_settled = SomeTrue
    THEN [b EXCEPT !.confirmed = @ + tx.amount]
    ELSE b

\* A bug variant of the first pass: an overdrawing entry floors the field at zero.
SettledStep_FloorAtZero(b, tx) ==
    IF tx.is_settled = SomeTrue
    THEN [b EXCEPT !.confirmed = Max(@ + tx.amount, 0)]
    ELSE b

\* One iteration of the first pass (mod.rs:155-167).
SettledStep(b, tx) ==
    IF tx.is_settled = SomeTrue
    THEN IF tx.amount > 0
         THEN [b EXCEPT !.confirmed = @ + tx.amount]
         ELSE LET amount == Abs(tx.amount)
              IN  IF b.confirmed >= amount
                  THEN [b EXCEPT !.confirmed = @ - amount]
                  ELSE b
    ELSE b

\* A bug variant of the second pass: outgoing pending entries are trusted
\* without looking at the remaining confirmed funds.
PendingStep_NoCheck(st, tx) ==
    IF tx.is_settled = SomeFalse
    THEN IF tx.amount > 0
         THEN [st EXCEPT !.balance.untrusted_pending = @ + tx.amount]
         ELSE [st EXCEPT !.balance.trusted_pending = @ + Abs(tx.amount)]
    ELSE st

\* One iteration of the second pass (mod.rs:172-194);
\* st = [balance, available_confirmed].
PendingStep(st, tx) ==
    IF tx.is_settled = SomeFalse
    THEN IF tx.amount > 0
         THEN [st EXCEPT !.balance.untrusted_pending = @ + tx.amount]
         ELSE LET amount == Abs(tx.amount)
              IN  IF st.available_confirmed >= amount
                  THEN [st EXCEPT !.available_confirmed = @ - amount,
                                  !.balance.trusted_pending = @ + amount]
                  ELSE st
    ELSE st

\* mod.rs:196
WithTotal(b) ==
    [b EXCEPT !.total = b.confirmed + b.trusted_pending
                        + b.untrusted_pending + b.immature]

RECURSIVE FirstPass(_, _, _)
FirstPass(b, ledger, i) ==
    IF i > Len(ledger) THEN b
    ELSE FirstPass(SettledStep(b, ledger[i]), ledger, i + 1)

RECURSIVE SecondPass(_, _, _)
SecondPass(st, ledger, i) ==
    IF i > Len(ledger) THEN st
    ELSE SecondPass(PendingStep(st, ledger[i]), ledger, i + 1)

\* The whole of recalculate_balance as a function of the ledger.
RecalculateBalance(ledger) ==
    LET confirmedOnly == FirstPass(ZeroBalance, ledger, 1)
        st == SecondPass([balance |-> confirmedOnly,
                          available_confirmed |-> confirmedOnly.confirmed],
                         ledger, 1)
    IN  WithTotal(st.balance)

RcIdle == [pc |-> "idle", i |-> 0, available_confirmed |-> 0, runs |-> 0]

\* A bug variant of the start of a recalculation: the balance is not reset.
RcBegin_NoReset ==
    /\ rc.pc = "idle"
    /\ rc' = [rc EXCEPT !.pc = "pass1", !.i = 1, !.available_confirmed = 0]
    /\ UNCHANGED <<detailVars, classifyVars, txidVars, sendVars, redeemVars, scriptVars, taskVars, renewVars, feedVars, scanVars, callVars, transactions, balance, last_result, clientVars, histVars, vtxoVars, lockVars>>

\* mod.rs:142-152: take the ledger lock, the balance lock, reset the balance.
RcBegin ==
    /\ rc.pc = "idle"
    /\ rc' = [rc EXCEPT !.pc = "pass1", !.i = 1, !.available_confirmed = 0]
    /\ balance' = ZeroBalance
    /\ UNCHANGED <<detailVars, classifyVars, txidVars, sendVars, redeemVars, scriptVars, taskVars, renewVars, feedVars, scanVars, callVars, transactions, last_result, clientVars, histVars, vtxoVars, lockVars>>

\* mod.rs:155-167, one entry.
RcFirstPass ==
    /\ rc.pc = "pass1"
    /\ rc.i <= Len(transactions)
    /\ balance' = SettledStep(balance, transactions[rc.i])
    /\ rc' = [rc EXCEPT !.i = @ + 1]
    /\ UNCHANGED <<detailVars, classifyVars, txidVars, sendVars, redeemVars, scriptVars, taskVars, renewVars, feedVars, scanVars, callVars, transactions, last_result, clientVars, histVars, vtxoVars, lockVars>>

\* mod.rs:170
RcSecondPassInit ==
    /\ rc.pc = "pass1"
    /\ rc.i > Len(transactions)
    /\ rc' = [rc EXCEPT !.pc = "pass2", !.i = 1,
                        !.available_confirmed = balance.confirmed]
    /\ UNCHANGED <<detailVars, classifyVars, txidVars, sendVars, redeemVars, scriptVars, taskVars, renewVars, feedVars, scanVars, callVars, transactions, balance, last_result, clientVars, histVars, vtxoVars, lockVars>>

\* mod.rs:172-194, one entry.
RcSecondPass ==
    /\ rc.pc = "pass2"
    /\ rc.i <= Len(transactions)
    /\ LET st == PendingStep([balance |-> balance,
                              available_confirmed |-> rc.available_confirmed],
                             transactions[rc.i])
       IN  /\ balance' = st.balance
           /\ rc' = [rc EXCEPT !.i = @ + 1,
                               !.available_confirmed = st.available_confirmed]
    /\ UNCHANGED <<detailVars, classifyVars, txidVars, sendVars, redeemVars, scriptVars, taskVars, renewVars, feedVars, scanVars, callVars, transactions, last_result, clientVars, histVars, vtxoVars, lockVars>>

\* mod.rs:196-198: total, Ok(()), both locks dropped.
RcTotal ==
    /\ rc.pc = "pass2"
    /\ rc.i > Len(transactions)
    /\ balance' = WithTotal(balance)
    /\ rc' = [rc EXCEPT !.pc = "idle", !.i = 0, !.available_confirmed = 0,
                        !.runs = IF @ < 2 THEN @ + 1 ELSE @]
    /\ last_result' = <<WithTotal(balance)>>
    /\ UNCHANGED <<detailVars, classifyVars, txidVars, sendVars, redeemVars, scriptVars, taskVars, renewVars, feedVars, scanVars, callVars, transactions, clientVars, histVars, vtxoVars, lockVars>>

RecalcStep ==
    \/ RcBegin
    \/ RcFirstPass
    \/ RcSecondPassInit
    \/ RcSecondPass
    \/ RcTotal

----------------------------------------------------------------------------
(* Specification of recalculate_balance over every bounded ledger *)

LedgerAmounts == {-2, -1, 0, 1, 3}

LedgerEntries ==
    {TransactionResponse(a, "Redeem", s) : a \in LedgerAmounts, s \in SettledValues}

PriorBalances == {ZeroBalance, WalletBalance(7, 5, 3, 0, 15)}

RefreshTasks == {1, 2}

EmptyCache == <<>>

NotCalled == [ok |-> FALSE, rpc |-> "not called", err |-> "",
              response |-> <<>>, states |-> <<>>]

RdIdle == [pc |-> "idle", kind |-> "none", address |-> "", visited |-> {},
           observed |-> <<>>]

RfIdle == [pc |-> "idle", states |-> <<>>, i |-> 0]

SvNone == [result |-> "none", amount |-> 0, refreshed |-> FALSE, refreshes |-> 0,
           sent |-> FALSE, transferred |-> FALSE]

\* VtxoManager::new (vtxo_manager.rs:33-38) and the tasks at rest.
VtxoInit ==
    /\ vtxo_cache = EmptyCache
    /\ now = 0
    /\ ret = NotCalled
    /\ sv = SvNone
    /\ cache_lock = [writer |-> 0, readers |-> 0]
    /\ rf = [t \in RefreshTasks |-> RfIdle]
    /\ rd = RdIdle
    /\ last_written = EmptyCache

TbNone == [seq |-> 0, op |-> "none", address |-> "", amount |-> 0, result |-> "none",
           sent |-> FALSE, transferred |-> FALSE]

RndIdle == [pc |-> "idle", result |-> "none", near |-> FALSE, boarding |-> FALSE,
            has_inputs |-> FALSE, boards |-> 0, answer |-> <<>>, elapsed |-> FALSE]

PrIdle == [pc |-> "idle", result |-> "none", r1ok |-> FALSE, before |-> <<>>]

ExNone == [id |-> "", result |-> "none", exits |-> 0, rpc |-> "not called",
           response |-> <<>>]

EcNone == [result |-> "none", recs |-> <<>>, connected |-> FALSE, client |-> FALSE,
           probe |-> "not called", timed_out |-> FALSE, rpc |-> "not called",
           response |-> <<>>, at |-> 0]

EeIdle == [pc |-> "idle", result |-> "none", rpc |-> "not called", response |-> <<>>,
           queue |-> <<>>, attempts |-> <<>>, exit_txids |-> <<>>]

FeedNone == [kind |-> "none", pc |-> "none", last_state |-> {}, last_balance |-> <<0, 0>>,
             current |-> {}, loop |-> 0, pending |-> <<>>, spent |-> <<>>,
             prev |-> {}, emitted |-> <<>>, fetched |-> FALSE, waiting |-> FALSE]

ChanNone == [queue |-> <<>>, rx |-> "none"]

CrNone == [result |-> "none", rpc |-> "not called", response |-> <<>>, refreshed_at |-> 0,
           checked_at |-> 0, joins |-> 0]

LocksFree == [balance |-> "none", transactions |-> "none"]

UaIdle == [pc |-> "idle", r1ok |-> FALSE, history |-> <<>>]

CsIdle == [pc |-> "idle", result |-> "none"]

GaIdle == [pc |-> "idle", result |-> -1]

OcIdle == [pc |-> "idle", found |-> <<>>]

SmNone == [op |-> "none", user_pk |-> "", server_pk |-> "", delay |-> 0,
           scripts |-> <<>>]

RedeemTasks == 1..MaxRedeems

RtIdle == [pc |-> "idle", amount |-> 0, available |-> 0, result |-> "none"]

SendTasks == {1, 2}

SndIdle == [pc |-> "idle", amount |-> 0, response |-> <<>>, total_balance |-> 0,
            overlaps |-> FALSE, sent |-> FALSE, result |-> "none"]

\* A txid is a prefix and a number: format!("deposit_{}", timestamp) is
\* Txid("deposit_", timestamp); a transaction hash has the number 0.
Txid(prefix, n) == [prefix |-> prefix, n |-> n]

\* services/mod.rs:90
InitialTxid == Txid("1234567890abcdef", 0)

FetchTasks == {1, 2}

FtIdle == [pc |-> "idle", existing_txids |-> {}]

ClNone == [called |-> FALSE, msg |-> {}, coordinator |-> "none", grpc |-> "none",
           svc |-> "none"]

TdNone == [called |-> FALSE, available_utxos |-> <<>>, amount |-> 0, fee_rate |-> 0,
           result |-> "none", selected |-> <<>>, fee |-> 0, change |-> 0]

\* No call has been made yet.
CallInit ==
    /\ tb = TbNone
    /\ rnd = RndIdle
    /\ pr = PrIdle
    /\ ex = ExNone
    /\ grpc_client = FALSE
    /\ ec = EcNone
    /\ ee = EeIdle
    /\ feed = FeedNone
    /\ chan = ChanNone
    /\ cr = CrNone
    /\ app_locks = LocksFree
    /\ ua = UaIdle
    /\ cs = CsIdle
    /\ ga = GaIdle
    /\ oc = OcIdle
    /\ sm = SmNone
    /\ rt = [t \in RedeemTasks |-> RtIdle]
    /\ snd = [t \in SendTasks |-> SndIdle]
    /\ txids = <<InitialTxid>>
    /\ ft = [t \in FetchTasks |-> FtIdle]
    /\ cl = ClNone
    /\ td = TdNone

InitRecalc ==
    /\ transactions \in SeqsUpTo(LedgerEntries, MaxLen)
    /\ balance \in PriorBalances
    /\ rc = RcIdle
    /\ last_result = NoResult
    /\ ark_client = FALSE
    /\ client_guard = "free"
    /\ last_op = "new"
    /\ stale_updates = 0
    /\ VtxoInit
    /\ CallInit

NextRecalc == RecalcStep

SpecRecalc == InitRecalc /\ [][NextRecalc]_vars

----------------------------------------------------------------------------
(* Claims about recalculate_balance (checked under SpecRecalc) *)

\* C1: during and after every recalculation, over every ledger, confirmed,
\* trusted_pending and untrusted_pending (and the running available total)
\* are >= 0: no step subtracts more than the field holds.
C1_BalanceNeverNegative ==
    /\ balance.confirmed >= 0
    /\ balance.trusted_pending >= 0
    /\ balance.untrusted_pending >= 0
    /\ rc.available_confirmed >= 0

\* A finished recalculation of a ledger whose settled outgoing entry (2)
\* exceeds the confirmed funds available when it is processed (1).
C1_Witness ==
    /\ rc.pc = "idle" /\ rc.runs >= 1
    /\ Len(transactions) = 2
    /\ transactions[1] = TransactionResponse(1, "Redeem", SomeTrue)
    /\ transactions[2] = TransactionResponse(-2, "Redeem", SomeTrue)
    /\ balance.confirmed = 1

\* The entry the running recalculation is about to process.
CurrentTx == transactions[rc.i]

InSecondPassAt(s) ==
    /\ rc.pc = "pass2"
    /\ rc.i <= Len(transactions)
    /\ CurrentTx.is_settled = s

\* C3: in the second pass an unsettled positive amount adds to
\* untrusted_pending; an unsettled non-positive amount of magnitude a adds a
\* to trusted_pending and deducts a from the running total when running >= a
\* and otherwise changes no field; entries that are not Some(false) change
\* nothing; the running total starts at the confirmed balance of the first
\* pass; and trusted_pending <= confirmed when the recalculation finishes.
C3_PendingClassificationStep ==
    /\ (rc.pc = "pass1" /\ rc'.pc = "pass2")
            => rc'.available_confirmed = balance.confirmed
    /\ (InSecondPassAt(SomeFalse) /\ CurrentTx.amount > 0)
            => /\ balance' = [balance EXCEPT !.untrusted_pending = @ + CurrentTx.amount]
               /\ rc'.available_confirmed = rc.available_confirmed
    /\ (InSecondPassAt(SomeFalse) /\ CurrentTx.amount <= 0
            /\ rc.available_confirmed >= -CurrentTx.amount)
            => /\ balance' = [balance EXCEPT !.trusted_pending = @ - CurrentTx.amount]
               /\ rc'.available_confirmed = rc.available_confirmed + CurrentTx.amount
    /\ (InSecondPassAt(SomeFalse) /\ CurrentTx.amount <= 0
            /\ rc.available_confirmed < -CurrentTx.amount)
            => /\ balance' = balance
               /\ rc'.available_confirmed = rc.available_confirmed
    /\ (InSecondPassAt(SomeTrue) \/ InSecondPassAt(NoneSettled))
            => /\ balance' = balance
               /\ rc'.available_confirmed = rc.available_confirmed
    /\ (rc.pc = "pass2" /\ rc'.pc = "idle")
            => balance'.trusted_pending <= balance'.confirmed

C3_PendingClassification == [][C3_PendingClassificationStep]_vars

\* A finished recalculation in which one pending outgoing entry was covered
\* (2 of 3) and the next one (2 of the remaining 1) was not.
C3_Witness ==
    /\ rc.pc = "idle" /\ rc.runs >= 1
    /\ Len(transactions) = 3
    /\ transactions[1] = TransactionResponse(3, "Redeem", SomeTrue)
    /\ transactions[2] = TransactionResponse(-2, "Redeem", SomeFalse)
    /\ transactions[3] = TransactionResponse(-2, "Redeem", SomeFalse)
    /\ balance.trusted_pending = 2
    /\ balance.confirmed = 3

InFirstPassAtSettledNegative ==
    /\ rc.pc = "pass1"
    /\ rc.i <= Len(transactions)
    /\ CurrentTx.is_settled = SomeTrue
    /\ CurrentTx.amount < 0

\* C4 as stated: a settled negative entry of magnitude a processed at
\* confirmed = c leaves confirmed = max(c - a, 0).
C4_FlooredAtZeroStep ==
    InFirstPassAtSettledNegative
        => balance'.confirmed = Max(balance.confirmed + CurrentTx.amount, 0)

C4_Original_FlooredAtZero == [][C4_FlooredAtZeroStep]_vars

\* C4 amended: a settled negative entry of magnitude a processed at
\* confirmed = c leaves confirmed = c - a when a <= c, and leaves confirmed
\* unchanged (= c) when a > c: the overdrawing entry is skipped.
C4_SkipOverdrawStep ==
    InFirstPassAtSettledNegative
        => balance'.confirmed =
              IF -CurrentTx.amount <= balance.confirmed
              THEN balance.confirmed + CurrentTx.amount
              ELSE balance.confirmed

C4_SkipOverdraw == [][C4_SkipOverdrawStep]_vars

\* The first pass has just skipped a settled entry of -2 at confirmed = 1.
C4_Witness ==
    /\ rc.pc = "pass1" /\ rc.i = 3
    /\ transactions[1] = TransactionResponse(1, "Redeem", SomeTrue)
    /\ transactions[2] = TransactionResponse(-2, "Redeem", SomeTrue)
    /\ balance.confirmed = 1

\* C6: a recalculation that finishes leaves the balance that the ledger
\* alone determines, whatever the balance was before the call, and a second
\* recalculation of the unchanged ledger leaves the same balance as the first.
C6_IdempotentStep ==
    (rc.pc = "pass2" /\ rc'.pc = "idle")
        => /\ balance' = RecalculateBalance(transactions)
           /\ last_result # NoResult => balance' = last_result[1]

C6_RecalculationIdempotent == [][C6_IdempotentStep]_vars

\* Two recalculations of a ledger with confirmed, trusted and untrusted
\* parts have finished.
C6_Witness ==
    /\ rc.pc = "idle" /\ rc.runs = 2
    /\ last_result = <<balance>>
    /\ balance.confirmed > 0
    /\ balance.trusted_pending > 0
    /\ balance.untrusted_pending > 0

----------------------------------------------------------------------------
(* Process-wide wallet state and the operations that write it *)

InitialBoardingAmount == 100000     \* services/mod.rs:91
DepositAmount == 100000000          \* services/ark_grpc.rs:794

\* Results of the coordinator calls made by update_app_state.
RpcErrBalance == [ok |-> FALSE, confirmed |-> 0, pending |-> 0]

OffchainBalanceResults ==
    {RpcErrBalance}
        \cup {[ok |-> TRUE, confirmed |-> 1000, pending |-> 500]}

\* ark_client's OffChainBalance::total(): pending + confirmed.
OffchainTotal(r) == r.pending + r.confirmed

\* ArkTransaction values of client.transaction_history(); `flag` is
\* confirmed_at.is_some() for Boarding and is_settled for Redeem.
ArkTransactions ==
    {[kind |-> "Boarding", amount |-> 1000, flag |-> f] : f \in BOOLEAN}
        \cup {[kind |-> "Round", amount |-> 1000, flag |-> TRUE]}
        \cup {[kind |-> "Redeem", amount |-> 500, flag |-> FALSE]}

HistoryResults ==
    {[ok |-> FALSE, txs |-> <<>>]}
        \cup {[ok |-> TRUE, txs |-> h] : h \in SeqsUpTo(ArkTransactions, MaxHistory)}

SomeBool(f) == IF f THEN SomeTrue ELSE SomeFalse

\* ark_grpc.rs:612-640
ToTransactionResponse(tx) ==
    IF tx.kind = "Boarding"
    THEN TransactionResponse(tx.amount, "Boarding", SomeBool(tx.flag))
    ELSE IF tx.kind = "Round"
         THEN TransactionResponse(tx.amount, "Round", SomeTrue)
         ELSE TransactionResponse(tx.amount, "Redeem", SomeBool(tx.flag))

\* A bug variant of update_app_state: the second block forgets the total.
UpdateAppStateResult_TotalOnce(bal, ledger, r1, r2, h) ==
    LET b1 == IF r1.ok
              THEN WalletBalance(r1.confirmed, r1.pending, 0, 0, OffchainTotal(r1))
              ELSE bal
        b2 == IF r2.ok
              THEN [b1 EXCEPT !.confirmed = @ + r2.confirmed,
                              !.trusted_pending = @ + r2.pending]
              ELSE b1
    IN  [balance |-> b2,
         transactions |-> IF h.ok
                          THEN [i \in 1..Len(h.txs) |-> ToTransactionResponse(h.txs[i])]
                          ELSE ledger]

\* The body of update_app_state when the client is present (ark_grpc.rs:586-645):
\* r1, r2 are the results of the two offchain_balance calls, h of the history call.
UpdateAppStateResult(bal, ledger, r1, r2, h) ==
    LET b1 == IF r1.ok
              THEN WalletBalance(r1.confirmed, r1.pending, 0, 0, OffchainTotal(r1))
              ELSE bal
        b2 == IF r2.ok
              THEN [b1 EXCEPT !.confirmed = @ + r2.confirmed,
                              !.trusted_pending = @ + r2.pending,
                              !.total = @ + OffchainTotal(r2)]
              ELSE b1
    IN  [balance |-> b2,
         transactions |-> IF h.ok
                          THEN [i \in 1..Len(h.txs) |-> ToTransactionResponse(h.txs[i])]
                          ELSE ledger]

\* The number of update_app_state runs in a row that added the second answer
\* to a balance the first call had not overwritten.
StaleAfter(r1, r2) ==
    IF r1.ok THEN 0
    ELSE IF r2.ok THEN stale_updates + 1 ELSE stale_updates

\* ark_grpc.rs:368-397, 467-542: connect stores the client on success.
Connect ==
    /\ ~ark_client
    /\ client_guard = "free"
    /\ ark_client' = TRUE
    /\ grpc_client' = TRUE
    /\ ret' = NotCalled
    /\ sv' = SvNone
    /\ UNCHANGED <<detailVars, classifyVars, txidVars, sendVars, redeemVars, scriptVars, taskVars, renewVars, feedVars, ec, ee, callVars, walletVars, recalcVars, client_guard, histVars, vtxo_cache, now, lockVars>>

\* ArkGrpcService::update_app_state called with the client lock free
\* (exit_manager.rs:28, services/transactions.rs:176), ark_grpc.rs:582-651.
UpdateAppState ==
    /\ client_guard = "free"
    /\ IF ark_client
       THEN \E r1 \in OffchainBalanceResults, r2 \in OffchainBalanceResults,
               h \in HistoryResults :
               LET res == UpdateAppStateResult(balance, transactions, r1, r2, h)
               IN  /\ Len(res.transactions) <= MaxLedger
                   /\ StaleAfter(r1, r2) <= MaxStaleUpdates
                   /\ balance' = res.balance
                   /\ transactions' = res.transactions
                   /\ last_op' = IF r1.ok \/ r2.ok THEN "update_app_state" ELSE last_op
                   /\ stale_updates' = StaleAfter(r1, r2)
       ELSE UNCHANGED <<walletVars, histVars>>
    /\ UNCHANGED <<detailVars, classifyVars, txidVars, sendVars, redeemVars, scriptVars, taskVars, renewVars, feedVars, scanVars, callVars, recalcVars, clientVars, vtxoVars, lockVars>>

\* History of a completed recalculate_balance: it is the last writer of the balance.
Recalculated ==
    /\ last_op' = "recalculate_balance"
    /\ stale_updates' = 0

\* api/wallet.rs:52 and services/wallet.rs:33-42: a whole recalculate_balance.
Recalculate ==
    /\ balance' = RecalculateBalance(transactions)
    /\ Recalculated
    /\ UNCHANGED <<detailVars, classifyVars, txidVars, sendVars, redeemVars, scriptVars, taskVars, renewVars, feedVars, scanVars, callVars, transactions, recalcVars, clientVars, vtxoVars, lockVars>>

\* The ArkGrpcService operations that call update_app_state while they still
\* hold the guard returned by get_ark_client (ark_grpc.rs:701/730, 759/774,
\* 808/823, 962/976): when the coordinator call succeeds the nested
\* get_ark_client().await (ark_grpc.rs:583) waits for the lock its own task
\* holds, so the operation never completes and the lock is never released;
\* when the coordinator call fails the operation returns Err.
GuardedOps == {"send_vtxo", "check_deposits", "participate_in_round", "send_on_chain"}

GrpcWithClient ==
    /\ ark_client
    /\ client_guard = "free"
    /\ \E op \in GuardedOps, rpcOk \in BOOLEAN :
          IF rpcOk
          THEN /\ client_guard' = "stuck"
               /\ UNCHANGED ark_client
          ELSE UNCHANGED clientVars
    /\ UNCHANGED <<detailVars, classifyVars, txidVars, sendVars, redeemVars, scriptVars, taskVars, renewVars, feedVars, scanVars, callVars, walletVars, recalcVars, histVars, vtxoVars, lockVars>>

\* ArkGrpcService::check_deposits without a client (ark_grpc.rs:790-804).
CheckDepositsFallback ==
    /\ ~ark_client
    /\ Len(transactions) < MaxLedger
    /\ transactions' = Append(transactions,
                              TransactionResponse(DepositAmount, "Boarding", SomeTrue))
    /\ balance' = RecalculateBalance(transactions')
    /\ Recalculated
    /\ UNCHANGED <<detailVars, classifyVars, txidVars, sendVars, redeemVars, scriptVars, taskVars, renewVars, feedVars, scanVars, callVars, recalcVars, clientVars, vtxoVars, lockVars>>

\* ark_grpc.rs:855-860
SettleAll(ledger) ==
    [i \in 1..Len(ledger) |->
        IF ledger[i].is_settled = SomeFalse
        THEN [ledger[i] EXCEPT !.is_settled = SomeTrue]
        ELSE ledger[i]]

\* ArkGrpcService::participate_in_round without a client (ark_grpc.rs:842-885).
ParticipateInRoundFallback ==
    /\ ~ark_client
    /\ IF \A i \in 1..Len(transactions) : transactions[i].is_settled # SomeFalse
       THEN UNCHANGED <<walletVars, histVars>>
       ELSE /\ Len(transactions) < MaxLedger
            /\ transactions' = Append(SettleAll(transactions),
                                      TransactionResponse(0, "Round", SomeTrue))
            /\ balance' = RecalculateBalance(transactions')
            /\ Recalculated
    /\ UNCHANGED <<detailVars, classifyVars, txidVars, sendVars, redeemVars, scriptVars, taskVars, renewVars, feedVars, scanVars, callVars, recalcVars, clientVars, vtxoVars, lockVars>>

\* services::transactions::participate_in_round (transactions.rs:154-228).
SvcParticipateInRound ==
    /\ client_guard = "free"
    /\ IF ark_client
       THEN \E boardOk \in BOOLEAN :
               IF boardOk
               THEN \E r1 \in OffchainBalanceResults, r2 \in OffchainBalanceResults,
                       h \in HistoryResults :
                       LET res == UpdateAppStateResult(balance, transactions, r1, r2, h)
                       IN  /\ Len(res.transactions) < MaxLedger
                           /\ balance' = RecalculateBalance(res.transactions)
                           /\ transactions' = Append(res.transactions,
                                                     TransactionResponse(0, "Round", SomeTrue))
                           /\ Recalculated
               ELSE UNCHANGED <<walletVars, histVars>>
       ELSE UNCHANGED <<walletVars, histVars>>
    /\ UNCHANGED <<detailVars, classifyVars, txidVars, sendVars, redeemVars, scriptVars, taskVars, renewVars, feedVars, scanVars, callVars, recalcVars, clientVars, vtxoVars, lockVars>>

SendAmounts == {60000}

\* services::wallet::send_onchain_payment_with_fee_priority (wallet.rs:147-199).
SendOnchainPayment ==
    /\ \E amount \in SendAmounts, broadcastOk \in BOOLEAN :
          IF broadcastOk
          THEN /\ Len(transactions) < MaxLedger
               /\ transactions' = Append(transactions,
                                         TransactionResponse(-amount, "OnChain", SomeFalse))
          ELSE UNCHANGED transactions
    /\ UNCHANGED <<detailVars, classifyVars, txidVars, sendVars, redeemVars, scriptVars, taskVars, renewVars, feedVars, scanVars, callVars, balance, recalcVars, clientVars, histVars, vtxoVars, lockVars>>

\* services::transactions::create_redeem_transaction (transactions.rs:230-265).
CreateRedeemTransaction ==
    /\ \E amount \in SendAmounts :
          LET available == RecalculateBalance(transactions).confirmed
          IN  IF available < amount
              THEN /\ balance' = RecalculateBalance(transactions)
                   /\ UNCHANGED transactions
                   /\ Recalculated
              ELSE /\ Len(transactions) < MaxLedger
                   /\ transactions' = Append(transactions,
                                             TransactionResponse(-amount, "Redeem", SomeFalse))
                   /\ balance' = RecalculateBalance(transactions')
                   /\ Recalculated
    /\ UNCHANGED <<detailVars, classifyVars, txidVars, sendVars, redeemVars, scriptVars, taskVars, renewVars, feedVars, scanVars, callVars, recalcVars, clientVars, vtxoVars, lockVars>>

\* services::transactions::receive_redeem_transaction (transactions.rs:267-288).
ReceiveRedeemTransaction ==
    /\ \E amount \in SendAmounts :
          /\ Len(transactions) < MaxLedger
          /\ transactions' = Append(transactions,
                                    TransactionResponse(amount, "Redeem", SomeFalse))
          /\ balance' = RecalculateBalance(transactions')
          /\ Recalculated
    /\ UNCHANGED <<detailVars, classifyVars, txidVars, sendVars, redeemVars, scriptVars, taskVars, renewVars, feedVars, scanVars, callVars, recalcVars, clientVars, vtxoVars, lockVars>>

\* AppState::new (services/mod.rs:84-105), ArkGrpcService::new (ark_grpc.rs:359-364).
Init ==
    /\ transactions = <<TransactionResponse(InitialBoardingAmount, "Boarding", SomeTrue)>>
    /\ balance = WalletBalance(InitialBoardingAmount, 0, 0, 0, InitialBoardingAmount)
    /\ rc = RcIdle
    /\ last_result = NoResult
    /\ ark_client = FALSE
    /\ client_guard = "free"
    /\ last_op = "new"
    /\ stale_updates = 0
    /\ VtxoInit
    /\ CallInit

Next ==
    \/ Connect
    \/ UpdateAppState
    \/ Recalculate
    \/ GrpcWithClient
    \/ CheckDepositsFallback
    \/ ParticipateInRoundFallback
    \/ SvcParticipateInRound
    \/ SendOnchainPayment
    \/ CreateRedeemTransaction
    \/ ReceiveRedeemTransaction

Spec == Init /\ [][Next]_vars

----------------------------------------------------------------------------
(* VTXO manager: services/offchain/vtxo_manager.rs *)

\* VtxoOutPoint values of the coordinator: amount, is_pending, expire_at.
\* expire_at is a Unix time, never negative.
OutpointKinds ==
    { [amount |-> 1000, is_pending |-> FALSE, expire_at |-> 3],
      [amount |-> 600,  is_pending |-> TRUE,  expire_at |-> 3],
      [amount |-> 600,  is_pending |-> FALSE, expire_at |-> 1] }

OutpointLists == SeqsUpTo(OutpointKinds, MaxOutpoints)

Group(address, outpoints) == [address |-> address, outpoints |-> outpoints]

\* Answers of client.spendable_vtxos(): a list of (outpoints, vtxo) groups;
\* two groups may carry the same VTXO address, and a group may be empty.
CoordinatorResponses ==
    {<<>>}
        \cup {<<Group("a1", o)>> : o \in OutpointLists}
        \cup {<<Group("a1", o1), g2>> :
                 o1 \in SeqsUpTo(OutpointKinds, 1),
                 g2 \in {Group("a1", <<[amount |-> 1000, is_pending |-> FALSE, expire_at |-> 3]>>),
                         Group("a2", <<[amount |-> 1000, is_pending |-> FALSE, expire_at |-> 3]>>),
                         Group("a2", <<>>)}}

RECURSIVE SumAmounts(_)
SumAmounts(outpoints) ==
    IF outpoints = <<>> THEN 0
    ELSE Head(outpoints).amount + SumAmounts(Tail(outpoints))

RECURSIVE MinExpiry(_)
MinExpiry(outpoints) ==
    IF Len(outpoints) = 1 THEN outpoints[1].expire_at
    ELSE LET rest == MinExpiry(Tail(outpoints))
         IN  IF Head(outpoints).expire_at <= rest THEN Head(outpoints).expire_at ELSE rest

AnyPending(outpoints) == \E i \in 1..Len(outpoints) : outpoints[i].is_pending

\* A bug variant of the classification: the pending flag is looked at first.
StatusOf_PendingFirst(outpoints, t) ==
    IF AnyPending(outpoints) THEN "Pending"
    ELSE IF MinExpiry(outpoints) <= t THEN "Expired"
    ELSE "Confirmed"

\* vtxo_manager.rs:59-67, for a non-empty group.
StatusOf(outpoints, t) ==
    IF MinExpiry(outpoints) <= t THEN "Expired"
    ELSE IF AnyPending(outpoints) THEN "Pending"
    ELSE "Confirmed"

\* vtxo_manager.rs:58-75
VtxoState(group, t) ==
    [address |-> group.address,
     outpoints |-> group.outpoints,
     total_amount |-> SumAmounts(group.outpoints),
     status |-> StatusOf(group.outpoints, t),
     earliest_expiry |-> MinExpiry(group.outpoints)]

\* vtxo_manager.rs:50-78: the VtxoState list, empty groups skipped.
RECURSIVE VtxoStates(_, _)
VtxoStates(response, t) ==
    IF response = <<>> THEN <<>>
    ELSE IF Head(response).outpoints = <<>>
         THEN VtxoStates(Tail(response), t)
         ELSE <<VtxoState(Head(response), t)>> \o VtxoStates(Tail(response), t)

\* HashMap::insert (vtxo_manager.rs:85)
CacheInsert(cache, state) ==
    [a \in DOMAIN cache \cup {state.address} |->
        IF a = state.address THEN state ELSE cache[a]]

\* vtxo_manager.rs:82-86: clear, then insert every state in order.
RECURSIVE CacheFill(_, _, _)
CacheFill(cache, states, i) ==
    IF i > Len(states) THEN cache
    ELSE CacheFill(CacheInsert(cache, states[i]), states, i + 1)

RpcErr == [ok |-> FALSE, response |-> <<>>]

CoordinatorResults == {RpcErr} \cup {[ok |-> TRUE, response |-> r] : r \in CoordinatorResponses}

\* A bug variant of get_spendable_vtxos: the cache is cleared before the
\* coordinator is asked, so a failed call leaves it empty.
RefreshOutcome_ClearFirst(cache, client, result, t) ==
    IF client
    THEN IF result.ok
         THEN LET states == VtxoStates(result.response, t)
              IN  [ret |-> [ok |-> TRUE, rpc |-> "Ok", err |-> "", 
                            response |-> result.response, states |-> states],
                   cache |-> CacheFill(EmptyCache, states, 1)]
         ELSE [ret |-> [ok |-> FALSE, rpc |-> "Err", err |-> "Failed to get spendable VTXOs",
                        now |-> t, response |-> <<>>, states |-> <<>>],
               cache |-> EmptyCache]
    ELSE [ret |-> [ok |-> FALSE, rpc |-> "not called", err |-> "Ark client not available",
                   now |-> t, response |-> <<>>, states |-> <<>>],
          cache |-> cache]

\* VtxoManager::get_spendable_vtxos (vtxo_manager.rs:41-100): what it returns
\* and the cache it leaves, given the session, the coordinator's answer and
\* the time.
RefreshOutcome(cache, client, result, t) ==
    IF client
    THEN IF result.ok
         THEN LET states == VtxoStates(result.response, t)
              IN  [ret |-> [ok |-> TRUE, rpc |-> "Ok", err |-> "", 
                            response |-> result.response, states |-> states],
                   cache |-> CacheFill(EmptyCache, states, 1)]
         ELSE [ret |-> [ok |-> FALSE, rpc |-> "Err", err |-> "Failed to get spendable VTXOs",
                        now |-> t, response |-> <<>>, states |-> <<>>],
               cache |-> cache]
    ELSE [ret |-> [ok |-> FALSE, rpc |-> "not called", err |-> "Ark client not available",
                   now |-> t, response |-> <<>>, states |-> <<>>],
          cache |-> cache]

\* VtxoManager::get_balance_breakdown (vtxo_manager.rs:153-169).
SumByStatus(cache, status) ==
    LET RECURSIVE Sum(_)
        Sum(addrs) ==
            IF addrs = {} THEN 0
            ELSE LET a == CHOOSE x \in addrs : TRUE
                 IN  (IF cache[a].status = status THEN cache[a].total_amount ELSE 0)
                     + Sum(addrs \ {a})
    IN  Sum(DOMAIN cache)

BalanceBreakdown(cache) ==
    <<SumByStatus(cache, "Confirmed"), SumByStatus(cache, "Pending"),
      SumByStatus(cache, "Expired")>>

\* The clock.
Tick ==
    /\ now < MaxNow
    /\ now' = now + 1
    /\ ret' = NotCalled
    /\ sv' = SvNone
    /\ UNCHANGED <<detailVars, classifyVars, txidVars, sendVars, redeemVars, scriptVars, taskVars, renewVars, feedVars, scanVars, callVars, walletVars, recalcVars, clientVars, histVars,
                   vtxo_cache, lockVars>>

\* A whole call of VtxoManager::get_spendable_vtxos (vtxo_manager.rs:41-100).
GetSpendableVtxos ==
    /\ \E result \in CoordinatorResults :
          LET out == RefreshOutcome(vtxo_cache, ark_client, result, now)
          IN  /\ ret' = out.ret
              /\ vtxo_cache' = out.cache
              /\ last_written' = IF out.ret.ok THEN out.cache ELSE last_written
    /\ sv' = SvNone
    /\ UNCHANGED <<detailVars, classifyVars, txidVars, sendVars, redeemVars, scriptVars, taskVars, renewVars, feedVars, scanVars, callVars, walletVars, recalcVars, clientVars, histVars,
                   now, cache_lock, rf, rd>>

----------------------------------------------------------------------------
(* Off-chain facade: services/offchain/mod.rs, transaction_builder.rs *)

DustLimit == 546    \* services/offchain/transaction_builder.rs:90

\* ArkTransactionBuilder::validate_transaction_params (transaction_builder.rs:74-96).
ValidateTransactionParams(address, amount) ==
    IF address = "" THEN "Invalid Ark address"
    ELSE IF amount = 0 THEN "Amount must be greater than zero"
    ELSE IF amount < DustLimit THEN "Amount is below minimum"
    ELSE "Ok"

\* A bug variant of the balance check: every returned VTXO counts.
TotalBalance_AnyStatus(states) ==
    IF states = <<>> THEN 0
    ELSE LET RECURSIVE Sum(_)
             Sum(i) == IF i > Len(states) THEN 0
                       ELSE states[i].total_amount + Sum(i + 1)
         IN  Sum(1)

\* offchain/mod.rs:71-74: the sum over the Confirmed-status VTXOs.
TotalBalance(states) ==
    IF states = <<>> THEN 0
    ELSE LET RECURSIVE Sum(_)
             Sum(i) == IF i > Len(states) THEN 0
                       ELSE (IF states[i].status = "Confirmed"
                             THEN states[i].total_amount ELSE 0) + Sum(i + 1)
         IN  Sum(1)

SendAddresses == {"tark1q"}
VtxoSendAmounts == {545, 1000, 5000}

\* ArkGrpcService::send_vtxo (ark_grpc.rs:700-755): what the caller gets and
\* what becomes of the client guard.  transferOk is the outcome of address
\* parsing, client.send_vtxo and extract_tx.  With the guard stuck the first
\* line (701) never returns.  Without a client the fallback returns a made-up
\* txid (748-754).  After a successful transfer update_app_state is awaited
\* with the guard still held (701, 730, 583): it never returns.
GrpcSendVtxo(client, guard, transferOk) ==
    IF guard = "stuck"
    THEN [result |-> "blocked: lock", transferred |-> FALSE, guard |-> "stuck"]
    ELSE IF ~client
    THEN [result |-> "Ok", transferred |-> FALSE, guard |-> guard]
    ELSE IF ~transferOk
    THEN [result |-> "Err: transfer", transferred |-> FALSE, guard |-> guard]
    ELSE [result |-> "blocked: update_app_state", transferred |-> TRUE, guard |-> "stuck"]

\* A whole call of ArkOffChainService::send_vtxo (offchain/mod.rs:63-89) with
\* build_vtxo_transfer (transaction_builder.rs:16-44) and
\* ArkGrpcService::send_vtxo (ark_grpc.rs:700-755).
SendVtxo ==
    /\ \E address \in SendAddresses, amount \in VtxoSendAmounts :
          IF ValidateTransactionParams(address, amount) # "Ok"
          THEN /\ sv' = [SvNone EXCEPT !.result = "Err: invalid", !.amount = amount]
               /\ ret' = NotCalled
               /\ UNCHANGED <<vtxo_cache, last_written, client_guard>>
          ELSE \E result \in CoordinatorResults :
               LET out == RefreshOutcome(vtxo_cache, ark_client, result, now)
                   called == [SvNone EXCEPT !.amount = amount, !.refreshed = TRUE,
                                            !.refreshes = 1]
               IN  /\ ret' = out.ret
                   /\ vtxo_cache' = out.cache
                   /\ last_written' = IF out.ret.ok THEN out.cache ELSE last_written
                   /\ IF ~out.ret.ok
                      THEN /\ sv' = [called EXCEPT !.result = "Err: refresh"]
                           /\ UNCHANGED client_guard
                      ELSE IF TotalBalance(out.ret.states) < amount
                      THEN /\ sv' = [called EXCEPT !.result = "Err: insufficient"]
                           /\ UNCHANGED client_guard
                      ELSE \E transferOk \in BOOLEAN :
                           LET sent == GrpcSendVtxo(ark_client, client_guard, transferOk)
                           IN  /\ sv' = [called EXCEPT !.result = sent.result,
                                                       !.sent = TRUE,
                                                       !.transferred = sent.transferred]
                               /\ client_guard' = sent.guard
    /\ UNCHANGED <<detailVars, classifyVars, txidVars, sendVars, redeemVars, scriptVars, taskVars, renewVars, feedVars, scanVars, callVars, walletVars, recalcVars, ark_client, histVars, now, cache_lock, rf, rd>>

InitVtxo == Init

NextVtxo ==
    \/ Connect
    \/ Tick
    \/ GetSpendableVtxos
    \/ SendVtxo

SpecVtxo == InitVtxo /\ [][NextVtxo]_vars

----------------------------------------------------------------------------
(* The cache lock: refreshes and cache readers step by step
   (vtxo_manager.rs:41-100, 147-169; parking_lot::RwLock) *)

Addresses == {"a1", "a2"}

CacheResponses ==
    { <<Group("a1", <<[amount |-> 1000, is_pending |-> FALSE, expire_at |-> 3]>>)>>,
      <<Group("a1", <<[amount |-> 600, is_pending |-> FALSE, expire_at |-> 1]>>),
        Group("a2", <<[amount |-> 1000, is_pending |-> FALSE, expire_at |-> 3]>>)>>,
      <<Group("a1", <<[amount |-> 600, is_pending |-> TRUE, expire_at |-> 3]>>),
        Group("a1", <<[amount |-> 1000, is_pending |-> FALSE, expire_at |-> 3]>>)>> }

CacheResults == {RpcErr} \cup {[ok |-> TRUE, response |-> r] : r \in CacheResponses}

\* vtxo_manager.rs:42-78: the coordinator call and the classification, made
\* before the cache lock is taken.  A failed call returns at once.
RfCall(t) ==
    /\ rf[t].pc = "idle"
    /\ ark_client
    /\ \E result \in CacheResults :
          IF result.ok
          THEN rf' = [rf EXCEPT ![t] = [pc |-> "computed",
                                        states |-> VtxoStates(result.response, now),
                                        i |-> 0]]
          ELSE UNCHANGED rf
    /\ UNCHANGED <<detailVars, classifyVars, txidVars, sendVars, redeemVars, scriptVars, taskVars, renewVars, feedVars, scanVars, callVars, walletVars, recalcVars, clientVars, histVars, vtxoVars,
                   cache_lock, rd, last_written>>

\* A bug variant of the write lock: it does not wait for the readers to leave.
RfLock_IgnoreReaders(t) ==
    /\ rf[t].pc = "computed"
    /\ cache_lock.writer = 0
    /\ cache_lock' = [cache_lock EXCEPT !.writer = t]
    /\ rf' = [rf EXCEPT ![t].pc = "locked"]
    /\ UNCHANGED <<detailVars, classifyVars, txidVars, sendVars, redeemVars, scriptVars, taskVars, renewVars, feedVars, scanVars, callVars, walletVars, recalcVars, clientVars, histVars, vtxoVars,
                   rd, last_written>>

\* vtxo_manager.rs:82: self.vtxo_cache.write()
RfLock(t) ==
    /\ rf[t].pc = "computed"
    /\ cache_lock.writer = 0
    /\ cache_lock.readers = 0
    /\ cache_lock' = [cache_lock EXCEPT !.writer = t]
    /\ rf' = [rf EXCEPT ![t].pc = "locked"]
    /\ UNCHANGED <<detailVars, classifyVars, txidVars, sendVars, redeemVars, scriptVars, taskVars, renewVars, feedVars, scanVars, callVars, walletVars, recalcVars, clientVars, histVars, vtxoVars,
                   rd, last_written>>

\* vtxo_manager.rs:83: cache.clear()
RfClear(t) ==
    /\ rf[t].pc = "locked"
    /\ vtxo_cache' = EmptyCache
    /\ rf' = [rf EXCEPT ![t].pc = "fill", ![t].i = 1]
    /\ UNCHANGED <<detailVars, classifyVars, txidVars, sendVars, redeemVars, scriptVars, taskVars, renewVars, feedVars, scanVars, callVars, walletVars, recalcVars, clientVars, histVars, now, ret, sv,
                   cache_lock, rd, last_written>>

\* vtxo_manager.rs:84-86: one cache.insert of the loop
RfInsert(t) ==
    /\ rf[t].pc = "fill"
    /\ rf[t].i <= Len(rf[t].states)
    /\ vtxo_cache' = CacheInsert(vtxo_cache, rf[t].states[rf[t].i])
    /\ rf' = [rf EXCEPT ![t].i = @ + 1]
    /\ UNCHANGED <<detailVars, classifyVars, txidVars, sendVars, redeemVars, scriptVars, taskVars, renewVars, feedVars, scanVars, callVars, walletVars, recalcVars, clientVars, histVars, now, ret, sv,
                   cache_lock, rd, last_written>>

\* vtxo_manager.rs:87: the write guard is dropped; the refresh has finished.
RfUnlock(t) ==
    /\ rf[t].pc = "fill"
    /\ rf[t].i > Len(rf[t].states)
    /\ cache_lock' = [cache_lock EXCEPT !.writer = 0]
    /\ last_written' = vtxo_cache
    /\ rf' = [rf EXCEPT ![t] = RfIdle]
    /\ UNCHANGED <<detailVars, classifyVars, txidVars, sendVars, redeemVars, scriptVars, taskVars, renewVars, feedVars, scanVars, callVars, walletVars, recalcVars, clientVars, histVars, vtxoVars, rd>>

\* HashMap::get(address).cloned() (vtxo_manager.rs:149)
Lookup(cache, address) ==
    IF address \in DOMAIN cache THEN <<cache[address]>> ELSE <<>>

\* The match of get_balance_breakdown (vtxo_manager.rs:160-165) on one entry.
AddToBreakdown(acc, state) ==
    IF state.status = "Confirmed" THEN <<acc[1] + state.total_amount, acc[2], acc[3]>>
    ELSE IF state.status = "Pending" THEN <<acc[1], acc[2] + state.total_amount, acc[3]>>
    ELSE IF state.status = "Expired" THEN <<acc[1], acc[2], acc[3] + state.total_amount>>
    ELSE acc

\* self.vtxo_cache.read() of get_vtxo_by_address (vtxo_manager.rs:148) or of
\* get_balance_breakdown (vtxo_manager.rs:154-157).
RdLock ==
    /\ rd.pc = "idle"
    /\ cache_lock.writer = 0
    /\ cache_lock' = [cache_lock EXCEPT !.readers = @ + 1]
    /\ \/ \E a \in Addresses :
             rd' = [pc |-> "reading", kind |-> "by_address", address |-> a,
                    visited |-> {}, observed |-> <<>>]
       \/ rd' = [pc |-> "reading", kind |-> "breakdown", address |-> "",
                 visited |-> {}, observed |-> <<0, 0, 0>>]
    /\ UNCHANGED <<detailVars, classifyVars, txidVars, sendVars, redeemVars, scriptVars, taskVars, renewVars, feedVars, scanVars, callVars, walletVars, recalcVars, clientVars, histVars, vtxoVars,
                   rf, last_written>>

\* vtxo_manager.rs:149
RdGet ==
    /\ rd.pc = "reading"
    /\ rd.kind = "by_address"
    /\ rd' = [rd EXCEPT !.pc = "done", !.observed = Lookup(vtxo_cache, rd.address)]
    /\ UNCHANGED <<detailVars, classifyVars, txidVars, sendVars, redeemVars, scriptVars, taskVars, renewVars, feedVars, scanVars, callVars, walletVars, recalcVars, clientVars, histVars, vtxoVars,
                   cache_lock, rf, last_written>>

\* vtxo_manager.rs:159-166: one iteration of the loop over cache.values()
RdNext ==
    /\ rd.pc = "reading"
    /\ rd.kind = "breakdown"
    /\ \E a \in DOMAIN vtxo_cache \ rd.visited :
          rd' = [rd EXCEPT !.visited = @ \cup {a},
                           !.observed = AddToBreakdown(@, vtxo_cache[a])]
    /\ UNCHANGED <<detailVars, classifyVars, txidVars, sendVars, redeemVars, scriptVars, taskVars, renewVars, feedVars, scanVars, callVars, walletVars, recalcVars, clientVars, histVars, vtxoVars,
                   cache_lock, rf, last_written>>

\* vtxo_manager.rs:168: the loop is over and the triple is the result.
RdEnd ==
    /\ rd.pc = "reading"
    /\ rd.kind = "breakdown"
    /\ DOMAIN vtxo_cache \subseteq rd.visited
    /\ rd' = [rd EXCEPT !.pc = "done"]
    /\ UNCHANGED <<detailVars, classifyVars, txidVars, sendVars, redeemVars, scriptVars, taskVars, renewVars, feedVars, scanVars, callVars, walletVars, recalcVars, clientVars, histVars, vtxoVars,
                   cache_lock, rf, last_written>>

\* The read guard is dropped when the reader returns (vtxo_manager.rs:150, 169).
RdUnlock ==
    /\ rd.pc = "done"
    /\ cache_lock' = [cache_lock EXCEPT !.readers = @ - 1]
    /\ rd' = RdIdle
    /\ UNCHANGED <<detailVars, classifyVars, txidVars, sendVars, redeemVars, scriptVars, taskVars, renewVars, feedVars, scanVars, callVars, walletVars, recalcVars, clientVars, histVars, vtxoVars,
                   rf, last_written>>

InitCache == Init

NextCache ==
    \/ Connect
    \/ \E t \in RefreshTasks : RfCall(t)
    \/ \E t \in RefreshTasks : RfLock(t)
    \/ \E t \in RefreshTasks : RfClear(t)
    \/ \E t \in RefreshTasks : RfInsert(t)
    \/ \E t \in RefreshTasks : RfUnlock(t)
    \/ RdLock
    \/ RdGet
    \/ RdNext
    \/ RdEnd
    \/ RdUnlock

SpecCache == InitCache /\ [][NextCache]_vars

----------------------------------------------------------------------------
(* ArkTransactionBuilder called on its own: services/offchain/transaction_builder.rs *)

BuilderAddresses == {"", "tark1q", "tark1p"}
BuilderAmounts == {0, 1, 545, 546, 547}

\* A bug variant of the validation: the dust limit is not looked at.
ValidationResult_NoDustCheck(address, amount) ==
    IF address = "" THEN "Err: Invalid Ark address"
    ELSE IF amount = 0 THEN "Err: Amount must be greater than zero"
    ELSE "Ok"

\* What validate_transaction_params returns (transaction_builder.rs:74-96).
ValidationResult(address, amount) ==
    IF ValidateTransactionParams(address, amount) = "Ok" THEN "Ok"
    ELSE "Err: " \o ValidateTransactionParams(address, amount)

NextSeq(call) == 1 - call.seq

\* A call of validate_transaction_params (transaction_builder.rs:74-96).
ValidateCall ==
    /\ \E address \in BuilderAddresses, amount \in BuilderAmounts :
          tb' = [TbNone EXCEPT !.seq = NextSeq(tb),
                               !.op = "validate_transaction_params",
                               !.address = address, !.amount = amount,
                               !.result = ValidationResult(address, amount)]
    /\ UNCHANGED <<detailVars, classifyVars, txidVars, sendVars, redeemVars, scriptVars, taskVars, renewVars, feedVars, scanVars, walletVars, recalcVars, clientVars, histVars, vtxoVars, lockVars,
                   rnd, pr, ex>>

\* build_vtxo_transfer (transaction_builder.rs:16-44): its own two checks,
\* then ArkGrpcService::send_vtxo.
BuildVtxoTransferOutcome(client, guard, address, amount, transferOk) ==
    IF address = ""
    THEN [result |-> "Err: Invalid Ark address", sent |-> FALSE, transferred |-> FALSE,
          guard |-> guard]
    ELSE IF amount = 0
    THEN [result |-> "Err: Amount must be greater than zero", sent |-> FALSE,
          transferred |-> FALSE, guard |-> guard]
    ELSE LET sent == GrpcSendVtxo(client, guard, transferOk)
         IN  [result |-> IF sent.result = "Err: transfer"
                         THEN "Err: Failed to build VTXO transfer" ELSE sent.result,
              sent |-> TRUE, transferred |-> sent.transferred, guard |-> sent.guard]

\* A bug variant of build_vtxo_transfer: the update_app_state that follows a
\* successful transfer (ark_grpc.rs:730) gets the client lock and runs.
BuildVtxoTransfer_UpdateRuns ==
    /\ \E address \in BuilderAddresses, amount \in BuilderAmounts, transferOk \in BOOLEAN,
          r1 \in OffchainBalanceResults, h \in HistoryResults :
          LET out == BuildVtxoTransferOutcome(ark_client, client_guard, address, amount,
                                              transferOk)
              res == UpdateAppStateResult(balance, transactions, r1, r1, h)
          IN  /\ tb' = [seq |-> NextSeq(tb), op |-> "build_vtxo_transfer",
                        address |-> address, amount |-> amount,
                        result |-> IF out.transferred THEN "Ok" ELSE out.result,
                        sent |-> out.sent, transferred |-> out.transferred]
              /\ client_guard' = client_guard
              /\ IF out.transferred /\ r1.ok
                 THEN /\ Len(res.transactions) <= MaxLedger
                      /\ balance' = res.balance
                      /\ transactions' = res.transactions
                 ELSE UNCHANGED walletVars
    /\ UNCHANGED <<detailVars, classifyVars, txidVars, sendVars, redeemVars, scriptVars, taskVars, renewVars, feedVars, scanVars, recalcVars, ark_client, histVars, vtxoVars, lockVars, rnd, pr, ex>>

\* A whole call of build_vtxo_transfer (transaction_builder.rs:16-44) with
\* ArkGrpcService::send_vtxo (ark_grpc.rs:700-755).
BuildVtxoTransfer ==
    /\ \E address \in BuilderAddresses, amount \in BuilderAmounts, transferOk \in BOOLEAN :
          LET out == BuildVtxoTransferOutcome(ark_client, client_guard, address, amount,
                                              transferOk)
          IN  /\ tb' = [seq |-> NextSeq(tb), op |-> "build_vtxo_transfer",
                        address |-> address, amount |-> amount,
                        result |-> out.result,
                        sent |-> out.sent, transferred |-> out.transferred]
              /\ client_guard' = out.guard
    /\ UNCHANGED <<detailVars, classifyVars, txidVars, sendVars, redeemVars, scriptVars, taskVars, renewVars, feedVars, scanVars, walletVars, recalcVars, ark_client, histVars, vtxoVars, lockVars,
                   rnd, pr, ex>>

\* The outputs handed to build_redeem_transaction: (address, amount) pairs.
RedeemOutputLists ==
    {<<>>}
        \cup {<<[address |-> a, amount |-> m]>> : a \in BuilderAddresses, m \in BuilderAmounts}
        \cup {<<[address |-> "tark1q", amount |-> 546], [address |-> "tark1p", amount |-> 546]>>}

\* A whole call of build_redeem_transaction (transaction_builder.rs:47-61).
BuildRedeemTransaction ==
    /\ \E outputs \in RedeemOutputLists, transferOk \in BOOLEAN :
          IF outputs = <<>>
          THEN /\ tb' = [TbNone EXCEPT !.seq = NextSeq(tb),
                                       !.op = "build_redeem_transaction",
                                       !.result = "Err: No outputs specified"]
               /\ UNCHANGED client_guard
          ELSE IF Len(outputs) > 1
          THEN /\ tb' = [TbNone EXCEPT !.seq = NextSeq(tb),
                                       !.op = "build_redeem_transaction",
                                       !.address = outputs[1].address,
                                       !.amount = outputs[1].amount,
                                       !.result = "Err: Multiple outputs not yet supported"]
               /\ UNCHANGED client_guard
          ELSE LET out == BuildVtxoTransferOutcome(ark_client, client_guard,
                                                   outputs[1].address, outputs[1].amount,
                                                   transferOk)
               IN  /\ tb' = [seq |-> NextSeq(tb), op |-> "build_redeem_transaction",
                             address |-> outputs[1].address, amount |-> outputs[1].amount,
                             result |-> out.result,
                             sent |-> out.sent, transferred |-> out.transferred]
                   /\ client_guard' = out.guard
    /\ UNCHANGED <<detailVars, classifyVars, txidVars, sendVars, redeemVars, scriptVars, taskVars, renewVars, feedVars, scanVars, walletVars, recalcVars, ark_client, histVars, vtxoVars, lockVars,
                   rnd, pr, ex>>

InitBuilder == Init

NextBuilder ==
    \/ Connect
    \/ SendOnchainPayment
    \/ Recalculate
    \/ ValidateCall
    \/ BuildVtxoTransfer
    \/ BuildRedeemTransaction

SpecBuilder == InitBuilder /\ [][NextBuilder]_vars

----------------------------------------------------------------------------
(* RoundCoordinator: services/offchain/round_coordinator.rs *)

RenewalThreshold == 7200    \* round_coordinator.rs:63

\* Answers of client.spendable_vtxos() seen by check_for_inputs: nothing, a
\* VTXO already expired, one 7203 s from time 0 and one far from expiry.
RoundResponses ==
    {<<>>}
        \cup {<<Group("a1", <<[amount |-> 1000, is_pending |-> FALSE, expire_at |-> e]>>)>> :
                 e \in {3, 7203, 20000}}

RoundVtxoResults == {RpcErr} \cup {[ok |-> TRUE, response |-> r] : r \in RoundResponses}

\* round_coordinator.rs:65-72: some outpoint has expire_at - now <= 7200.
NearExpiry(response, t) ==
    \E g \in 1..Len(response) :
        \E i \in 1..Len(response[g].outpoints) :
            response[g].outpoints[i].expire_at - t <= RenewalThreshold

\* check_for_inputs (round_coordinator.rs:59-77): true from inside the loop
\* (line 70) and true again after it (line 76).
CheckForInputs(result, t) ==
    IF result.ok /\ NearExpiry(result.response, t) THEN TRUE ELSE TRUE

\* An error of client.board is the set of phrases its message contains.
BoardErrors ==
    { {"No boarding outputs"}, {"No boarding outputs", "No VTXOs"}, {"No VTXOs"},
      {"connection refused"} }

BoardAnswers == {[ok |-> TRUE, msg |-> {}]} \cup {[ok |-> FALSE, msg |-> m] : m \in BoardErrors}

\* A bug variant of the match on board's answer: the no-op case wants both phrases.
RoundJoinResult_BothPhrases(answer) ==
    IF answer.ok THEN "Ok(Some)"
    ELSE IF "No boarding outputs" \in answer.msg /\ "No VTXOs" \in answer.msg THEN "Ok(None)"
    ELSE "Err: Round participation failed"

\* round_coordinator.rs:38-52
RoundJoinResult(answer) ==
    IF answer.ok THEN "Ok(Some)"
    ELSE IF "No boarding outputs" \in answer.msg THEN "Ok(None)"
    ELSE "Err: Round participation failed"

\* participate up to the call of client.board (round_coordinator.rs:20-38).
\* boarding tells whether a confirmed, unregistered boarding output exists;
\* the code never asks.
RndStart ==
    /\ rnd.pc = "idle"
    /\ IF ~ark_client
       THEN rnd' = [RndIdle EXCEPT !.pc = "returned",
                                   !.result = "Err: Ark client not available"]
       ELSE \E result \in RoundVtxoResults, boarding \in BOOLEAN :
               LET has == CheckForInputs(result, now)
                   seen == [RndIdle EXCEPT !.near = result.ok /\ NearExpiry(result.response, now),
                                           !.boarding = boarding,
                                           !.has_inputs = has]
               IN  IF ~has
                   THEN rnd' = [seen EXCEPT !.pc = "returned", !.result = "Ok(None)"]
                   ELSE rnd' = [seen EXCEPT !.pc = "board", !.boards = 1]
    /\ UNCHANGED <<detailVars, classifyVars, txidVars, sendVars, redeemVars, scriptVars, taskVars, renewVars, feedVars, scanVars, walletVars, recalcVars, clientVars, histVars, vtxoVars, lockVars,
                   tb, pr, ex>>

\* client.board answers (round_coordinator.rs:38-52).
RndBoardAnswer ==
    /\ rnd.pc = "board"
    /\ \E answer \in BoardAnswers :
          rnd' = [rnd EXCEPT !.pc = "returned", !.answer = <<answer>>,
                             !.result = RoundJoinResult(answer)]
    /\ UNCHANGED <<detailVars, classifyVars, txidVars, sendVars, redeemVars, scriptVars, taskVars, renewVars, feedVars, scanVars, walletVars, recalcVars, clientVars, histVars, vtxoVars, lockVars,
                   tb, pr, ex>>

\* Thirty seconds pass while client.board is awaited; participate has no timer.
RndElapse ==
    /\ rnd.pc = "board"
    /\ ~rnd.elapsed
    /\ rnd' = [rnd EXCEPT !.elapsed = TRUE]
    /\ UNCHANGED <<detailVars, classifyVars, txidVars, sendVars, redeemVars, scriptVars, taskVars, renewVars, feedVars, scanVars, walletVars, recalcVars, clientVars, histVars, vtxoVars, lockVars,
                   tb, pr, ex>>

\* The caller has taken the result.
RndReturn ==
    /\ rnd.pc = "returned"
    /\ rnd' = RndIdle
    /\ UNCHANGED <<detailVars, classifyVars, txidVars, sendVars, redeemVars, scriptVars, taskVars, renewVars, feedVars, scanVars, walletVars, recalcVars, clientVars, histVars, vtxoVars, lockVars,
                   tb, pr, ex>>

InitRound == Init

NextRound ==
    \/ Connect
    \/ Tick
    \/ RndStart
    \/ RndBoardAnswer
    \/ RndElapse
    \/ RndReturn

SpecRound == InitRound /\ [][NextRound]_vars

----------------------------------------------------------------------------
(* The participate_in_round API handler step by step: api/transactions.rs:38-70,
   services/transactions.rs:154-228, ark_grpc.rs:582-651 *)

HistoryErr == [ok |-> FALSE, txs |-> <<>>]

\* services/transactions.rs:171-221: what the handler's body returns for an
\* answer of client.board that is not Ok.
SvcBoardErrResult(answer) ==
    IF "No boarding outputs" \in answer.msg /\ "No VTXOs" \in answer.msg THEN "Ok(None)"
    ELSE "Err: Error participating in round"

\* api/transactions.rs:41-44 and services/transactions.rs:156-171: the timer
\* is armed and the body runs up to the call of client.board.
PrStart ==
    /\ pr.pc = "idle"
    /\ IF ark_client
       THEN pr' = [PrIdle EXCEPT !.pc = "board",
                                 !.before = <<transactions, balance, vtxo_cache>>]
       ELSE pr' = [PrIdle EXCEPT !.pc = "returned",
                                 !.result = "Err: Ark client not available",
                                 !.before = <<transactions, balance, vtxo_cache>>]
    /\ UNCHANGED <<detailVars, classifyVars, txidVars, sendVars, redeemVars, scriptVars, taskVars, renewVars, feedVars, scanVars, walletVars, recalcVars, clientVars, histVars, vtxoVars, lockVars,
                   tb, rnd, ex>>

\* client.board answers (services/transactions.rs:171-172, 212-221).
PrBoard ==
    /\ pr.pc = "board"
    /\ \E answer \in BoardAnswers :
          IF answer.ok
          THEN pr' = [pr EXCEPT !.pc = "uas1"]
          ELSE pr' = [pr EXCEPT !.pc = "returned", !.result = SvcBoardErrResult(answer)]
    /\ UNCHANGED <<detailVars, classifyVars, txidVars, sendVars, redeemVars, scriptVars, taskVars, renewVars, feedVars, scanVars, walletVars, recalcVars, clientVars, histVars, vtxoVars, lockVars,
                   tb, rnd, ex>>

\* update_app_state gets the client and balance locks and the first
\* offchain_balance answers (ark_grpc.rs:583-596).
PrUas1 ==
    /\ pr.pc = "uas1"
    /\ client_guard = "free"
    /\ \E r1 \in OffchainBalanceResults :
          /\ balance' = UpdateAppStateResult(balance, transactions, r1, RpcErrBalance,
                                             HistoryErr).balance
          /\ last_op' = IF r1.ok THEN "update_app_state" ELSE last_op
          /\ pr' = [pr EXCEPT !.pc = "uas2", !.r1ok = r1.ok]
    /\ UNCHANGED <<detailVars, classifyVars, txidVars, sendVars, redeemVars, scriptVars, taskVars, renewVars, feedVars, scanVars, transactions, stale_updates, recalcVars, clientVars, vtxoVars, lockVars,
                   tb, rnd, ex>>

\* The second offchain_balance answers (ark_grpc.rs:599-604).
PrUas2 ==
    /\ pr.pc = "uas2"
    /\ \E r2 \in OffchainBalanceResults :
          LET stale == IF pr.r1ok THEN 0
                       ELSE IF r2.ok THEN stale_updates + 1 ELSE stale_updates
          IN  /\ stale <= MaxStaleUpdates
              /\ stale_updates' = stale
              /\ balance' = UpdateAppStateResult(balance, transactions, RpcErrBalance, r2,
                                                 HistoryErr).balance
              /\ last_op' = IF r2.ok THEN "update_app_state" ELSE last_op
    /\ pr' = [pr EXCEPT !.pc = "hist"]
    /\ UNCHANGED <<detailVars, classifyVars, txidVars, sendVars, redeemVars, scriptVars, taskVars, renewVars, feedVars, scanVars, transactions, recalcVars, clientVars, vtxoVars, lockVars, tb, rnd, ex>>

\* transaction_history answers and the ledger is replaced (ark_grpc.rs:607-645).
PrHist ==
    /\ pr.pc = "hist"
    /\ \E h \in HistoryResults :
          LET res == UpdateAppStateResult(balance, transactions, RpcErrBalance,
                                          RpcErrBalance, h)
          IN  /\ Len(res.transactions) < MaxLedger
              /\ transactions' = res.transactions
    /\ pr' = [pr EXCEPT !.pc = "recalc"]
    /\ UNCHANGED <<detailVars, classifyVars, txidVars, sendVars, redeemVars, scriptVars, taskVars, renewVars, feedVars, scanVars, balance, histVars, recalcVars, clientVars, vtxoVars, lockVars,
                   tb, rnd, ex>>

\* recalculate_balance gets its locks and runs (services/transactions.rs:182).
PrRecalc ==
    /\ pr.pc = "recalc"
    /\ balance' = RecalculateBalance(transactions)
    /\ Recalculated
    /\ pr' = [pr EXCEPT !.pc = "push"]
    /\ UNCHANGED <<detailVars, classifyVars, txidVars, sendVars, redeemVars, scriptVars, taskVars, renewVars, feedVars, scanVars, transactions, recalcVars, clientVars, vtxoVars, lockVars, tb, rnd, ex>>

\* The ledger lock is granted and the Round entry pushed
\* (services/transactions.rs:188-202).
PrPush ==
    /\ pr.pc = "push"
    /\ transactions' = Append(transactions, TransactionResponse(0, "Round", SomeTrue))
    /\ pr' = [pr EXCEPT !.pc = "save"]
    /\ UNCHANGED <<detailVars, classifyVars, txidVars, sendVars, redeemVars, scriptVars, taskVars, renewVars, feedVars, scanVars, balance, histVars, recalcVars, clientVars, vtxoVars, lockVars,
                   tb, rnd, ex>>

\* save_transaction_to_db answers and the body returns (services/transactions.rs:205-210).
PrSave ==
    /\ pr.pc = "save"
    /\ pr' = [pr EXCEPT !.pc = "returned", !.result = "Ok(Some)"]
    /\ UNCHANGED <<detailVars, classifyVars, txidVars, sendVars, redeemVars, scriptVars, taskVars, renewVars, feedVars, scanVars, walletVars, recalcVars, clientVars, histVars, vtxoVars, lockVars,
                   tb, rnd, ex>>

\* The 30 s timer fires while the body waits at an await: the body is dropped
\* where it stands and the handler answers 408 (api/transactions.rs:63-68).
PrTimeout ==
    /\ pr.pc \in {"board", "uas1", "uas2", "hist", "recalc", "push", "save"}
    /\ pr' = [pr EXCEPT !.pc = "returned", !.result = "Timeout"]
    /\ UNCHANGED <<detailVars, classifyVars, txidVars, sendVars, redeemVars, scriptVars, taskVars, renewVars, feedVars, scanVars, walletVars, recalcVars, clientVars, histVars, vtxoVars, lockVars,
                   tb, rnd, ex>>

\* The response has been sent.
PrReturn ==
    /\ pr.pc = "returned"
    /\ pr' = PrIdle
    /\ UNCHANGED <<detailVars, classifyVars, txidVars, sendVars, redeemVars, scriptVars, taskVars, renewVars, feedVars, scanVars, walletVars, recalcVars, clientVars, histVars, vtxoVars, lockVars,
                   tb, rnd, ex>>

InitRoundApi == Init

NextRoundApi ==
    \/ Connect
    \/ PrStart
    \/ PrBoard
    \/ PrUas1
    \/ PrUas2
    \/ PrHist
    \/ PrRecalc
    \/ PrPush
    \/ PrSave
    \/ PrTimeout
    \/ PrReturn

SpecRoundApi == InitRoundApi /\ [][NextRoundApi]_vars

----------------------------------------------------------------------------
(* ExitManager: services/offchain/exit_manager.rs *)

ExitOutpoint(id, pending) ==
    [outpoint |-> id, amount |-> 1000, is_pending |-> pending, expire_at |-> 20000]

\* Answers of client.spendable_vtxos() seen by validate_exit_eligibility: a
\* group at address a1 with a confirmed and/or a pending outpoint, alone or
\* followed by a second group at the same or at another address.
ExitResponses ==
    LET first == { <<>>, <<ExitOutpoint("tx1:0", FALSE)>>, <<ExitOutpoint("tx2:0", TRUE)>>,
                   <<ExitOutpoint("tx1:0", FALSE), ExitOutpoint("tx2:0", TRUE)>> }
        second == { Group("a1", <<ExitOutpoint("tx3:0", FALSE)>>),
                    Group("a2", <<ExitOutpoint("tx3:0", FALSE)>>),
                    Group("a2", <<ExitOutpoint("tx3:0", TRUE)>>) }
    IN  {<<>>}
            \cup {<<Group("a1", o)>> : o \in first}
            \cup {<<Group("a1", o), g>> : o \in first, g \in second}

ExitVtxoResults == {RpcErr} \cup {[ok |-> TRUE, response |-> r] : r \in ExitResponses}

ExitIds == {"a1", "a2", "tx1:0", "tx2:0", "tx9:9"}

\* exit_manager.rs:79-80 and 89-90: the group is at address id or holds outpoint id.
MatchesId(group, id) ==
    \/ group.address = id
    \/ \E i \in 1..Len(group.outpoints) : group.outpoints[i].outpoint = id

\* A bug variant of the eligibility check: any group without a pending
\* outpoint makes the id eligible.
ExitEligibility_AnyGroupConfirmed(client, result, id) ==
    IF ~client THEN "Err: Ark client not available"
    ELSE IF ~result.ok THEN "Err: Failed to validate VTXO eligibility"
    ELSE LET vtxos == result.response
             vtxo_found == \E g \in 1..Len(vtxos) : MatchesId(vtxos[g], id)
             is_confirmed == \E g \in 1..Len(vtxos) : ~AnyPending(vtxos[g].outpoints)
         IN  IF ~vtxo_found THEN "Err: VTXO not found or not spendable"
             ELSE IF ~is_confirmed THEN "Err: Cannot exit pending VTXO unilaterally"
             ELSE "Ok"

\* validate_exit_eligibility (exit_manager.rs:68-105)
ExitEligibility(client, result, id) ==
    IF ~client THEN "Err: Ark client not available"
    ELSE IF ~result.ok THEN "Err: Failed to validate VTXO eligibility"
    ELSE LET vtxos == result.response
             vtxo_found == \E g \in 1..Len(vtxos) : MatchesId(vtxos[g], id)
             is_confirmed == \E g \in 1..Len(vtxos) :
                                 /\ MatchesId(vtxos[g], id)
                                 /\ ~AnyPending(vtxos[g].outpoints)
         IN  IF ~vtxo_found THEN "Err: VTXO not found or not spendable"
             ELSE IF ~is_confirmed THEN "Err: Cannot exit pending VTXO unilaterally"
             ELSE "Ok"

\* What transaction_history() answers during the update_app_state of an exit.
ExitHistoryResults ==
    {HistoryErr, [ok |-> TRUE, txs |-> <<[kind |-> "Round", amount |-> 1000, flag |-> TRUE]>>]}

\* A whole call of exit_vtxo (exit_manager.rs:16-39): the eligibility check,
\* ArkGrpcService::unilateral_exit (ark_grpc.rs:942-959, which always answers
\* Ok) and update_app_state (ark_grpc.rs:582-651), whose error is ignored and
\* which never returns when the client lock is stuck.
ExitVtxo ==
    /\ \E id \in ExitIds, result \in ExitVtxoResults :
          LET eligible == ExitEligibility(ark_client, result, id)
              called == [ExNone EXCEPT !.id = id,
                                       !.rpc = IF ~ark_client THEN "not called"
                                               ELSE IF result.ok THEN "Ok" ELSE "Err",
                                       !.response = IF ark_client THEN result.response
                                                    ELSE <<>>]
          IN  IF eligible # "Ok"
              THEN /\ ex' = [called EXCEPT !.result = eligible]
                   /\ UNCHANGED <<walletVars, histVars>>
              ELSE IF client_guard = "stuck"
              THEN /\ ex' = [called EXCEPT !.result = "blocked: update_app_state",
                                           !.exits = 1]
                   /\ UNCHANGED <<walletVars, histVars>>
              ELSE \E r1 \in OffchainBalanceResults, r2 \in OffchainBalanceResults,
                      h \in ExitHistoryResults :
                      LET res == UpdateAppStateResult(balance, transactions, r1, r2, h)
                      IN  /\ StaleAfter(r1, r2) <= MaxStaleUpdates
                          /\ ex' = [called EXCEPT !.result = "Ok", !.exits = 1]
                          /\ balance' = res.balance
                          /\ transactions' = res.transactions
                          /\ last_op' = IF r1.ok \/ r2.ok THEN "update_app_state"
                                        ELSE last_op
                          /\ stale_updates' = StaleAfter(r1, r2)
    /\ UNCHANGED <<detailVars, classifyVars, txidVars, sendVars, redeemVars, scriptVars, taskVars, renewVars, feedVars, scanVars, recalcVars, clientVars, vtxoVars, lockVars, tb, rnd, pr>>

InitExit == Init

NextExit ==
    \/ Connect
    \/ GrpcWithClient
    \/ ExitVtxo

SpecExit == InitExit /\ [][NextExit]_vars

----------------------------------------------------------------------------
(* ExitManager::check_exit_conditions: services/offchain/exit_manager.rs:42-65,
   108-222 *)

CriticalThreshold == 1800   \* exit_manager.rs:146
WarningThreshold == 3600    \* exit_manager.rs:147

\* ark_grpc.rs:368-397: the gRPC connection succeeds but the Ark client cannot
\* be initialised; connect still answers Ok.
ConnectWithoutArkClient ==
    /\ ~grpc_client
    /\ ~ark_client
    /\ grpc_client' = TRUE
    /\ UNCHANGED <<detailVars, classifyVars, txidVars, sendVars, redeemVars, scriptVars, taskVars, renewVars, feedVars, ec, ee, callVars, walletVars, recalcVars, clientVars, histVars, vtxoVars,
                   lockVars>>

ScanOutpoint(id, amount, expire_at) ==
    [outpoint |-> id, amount |-> amount, is_pending |-> FALSE, expire_at |-> expire_at]

\* Expiry times around the clock range 0..MaxNow: already passed or about to
\* pass, around now + 1800, around now + 3600, far away.
ScanExpiries == {1, 1802, 3602, 9000}

\* Answers of client.spendable_vtxos() seen by check_vtxo_expiry.
ScanResponses ==
    LET o1(e) == ScanOutpoint("tx1:0", 1000, e)
        o2(e) == ScanOutpoint("tx2:0", 2500, e)
    IN  {<<>>}
            \cup {<<Group("a1", <<o1(e)>>)>> : e \in ScanExpiries}
            \cup {<<Group("a1", <<o1(e), o2(f)>>)>> : e \in ScanExpiries, f \in ScanExpiries}
            \cup {<<Group("a1", <<o1(e)>>), Group("a2", <<o2(f)>>)>> :
                     e \in ScanExpiries, f \in ScanExpiries}

ScanResults == {RpcErr} \cup {[ok |-> TRUE, response |-> r] : r \in ScanResponses}

\* What client.get_offchain_address() answers (ark_grpc.rs:657).
AddressProbes == {"Ok", "Err"}

\* ArkGrpcService::get_address once it holds the client lock
\* (ark_grpc.rs:653-672): the fallback address replaces a missing client and a
\* failed get_offchain_address alike.
GetAddress(client, probe) ==
    IF client /\ probe = "Ok"
    THEN [ok |-> TRUE, address |-> "tark1q"]
    ELSE [ok |-> TRUE, address |-> "ark1dummy123456789"]

\* test_server_connection (exit_manager.rs:129-140); get_address waits for the
\* client lock first (ark_grpc.rs:654), for ever when that lock is stuck.
TestServerConnection(connected, client, guard, probe) ==
    IF ~connected THEN "Err: Not connected to server"
    ELSE IF guard = "stuck" THEN "pending"
    ELSE IF GetAddress(client, probe).ok THEN "Ok"
    ELSE "Err: Server test failed"

\* check_server_responsiveness (exit_manager.rs:108-126): the 10 s timeout
\* elapses over a pending test.
CheckServerResponsiveness(connected, client, guard, probe) ==
    TestServerConnection(connected, client, guard, probe) = "Ok"

\* exit_manager.rs:48-53
ServerUnresponsiveRec ==
    [vtxo_id |-> "all", reason |-> "ServerUnresponsive", seconds |-> 0,
     urgency |-> "High", estimated_cost |-> 10000]

\* estimate_exit_cost (exit_manager.rs:215-222)
EstimateExitCost(amount) == 2000 + (amount \div 1000)

RECURSIVE AllOutpoints(_)
\* The outpoints of an answer in the order of the two nested loops
\* (exit_manager.rs:157-158, 238-239).
AllOutpoints(vtxos) ==
    IF vtxos = <<>> THEN <<>>
    ELSE Head(vtxos).outpoints \o AllOutpoints(Tail(vtxos))

RECURSIVE ExpiryRecs(_, _)
\* exit_manager.rs:159-175 over a list of outpoints at time t.  expire_at is
\* an i64, so the saturating subtraction goes below zero for a passed expiry;
\* the conversion of a negative time_to_expiry to u64 (line 164) panics.
ExpiryRecs(outpoints, t) ==
    IF outpoints = <<>> THEN [panic |-> FALSE, recs |-> <<>>]
    ELSE LET outpoint == Head(outpoints)
             time_to_expiry == outpoint.expire_at - t
             rest == ExpiryRecs(Tail(outpoints), t)
             rec(urgency) == [vtxo_id |-> outpoint.outpoint, reason |-> "NearExpiry",
                              seconds |-> time_to_expiry, urgency |-> urgency,
                              estimated_cost |-> EstimateExitCost(outpoint.amount)]
         IN  IF time_to_expiry <= CriticalThreshold
             THEN IF time_to_expiry < 0
                  THEN [panic |-> TRUE, recs |-> <<>>]
                  ELSE [rest EXCEPT !.recs = <<rec("Critical")>> \o rest.recs]
             ELSE IF time_to_expiry <= WarningThreshold
             THEN [rest EXCEPT !.recs = <<rec("Medium")>> \o rest.recs]
             ELSE rest

\* check_vtxo_expiry (exit_manager.rs:143-186): without a client and after a
\* failed fetch the scan answers Ok with no recommendation.
CheckVtxoExpiry(client, result, t) ==
    IF ~client THEN [panic |-> FALSE, recs |-> <<>>]
    ELSE IF ~result.ok THEN [panic |-> FALSE, recs |-> <<>>]
    ELSE ExpiryRecs(AllOutpoints(result.response), t)

LedgerTxids == <<"txid1", "txid2", "txid3">>

RECURSIVE StuckRecs(_, _, _)
\* check_stuck_transactions (exit_manager.rs:189-212) from ledger index i on;
\* old holds the indices of the entries whose timestamp is more than an hour
\* before now.
StuckRecs(ledger, old, i) ==
    IF i > Len(ledger) THEN <<>>
    ELSE LET tx == ledger[i]
             rest == StuckRecs(ledger, old, i + 1)
         IN  IF tx.is_settled = SomeFalse /\ i \in old /\ tx.type_name = "Redeem"
             THEN <<[vtxo_id |-> LedgerTxids[i], reason |-> "StuckTransaction",
                     seconds |-> 0, urgency |-> "Medium", estimated_cost |-> 5000]>> \o rest
             ELSE rest

\* A whole call of check_exit_conditions (exit_manager.rs:42-65).
CheckExitConditions ==
    /\ \E probe \in AddressProbes, result \in ScanResults,
          old \in SUBSET (1..Len(transactions)) :
          LET probed == grpc_client /\ client_guard = "free" /\ ark_client
              test == TestServerConnection(grpc_client, ark_client, client_guard, probe)
              server_responsive ==
                  CheckServerResponsiveness(grpc_client, ark_client, client_guard, probe)
              expiry == CheckVtxoExpiry(ark_client, result, now)
              stuck == StuckRecs(transactions, old, 1)
          IN  /\ ~probed => probe = "Ok"
              /\ ~ark_client => result = RpcErr
              /\ ec' = [result |-> IF expiry.panic THEN "panic" ELSE "Ok",
                        recs |-> IF expiry.panic THEN <<>>
                                 ELSE (IF server_responsive THEN <<>>
                                       ELSE <<ServerUnresponsiveRec>>)
                                          \o expiry.recs \o stuck,
                        connected |-> grpc_client,
                        client |-> ark_client,
                        probe |-> IF probed THEN probe ELSE "not called",
                        timed_out |-> (test = "pending"),
                        rpc |-> IF ~ark_client THEN "not called"
                                ELSE IF result.ok THEN "Ok" ELSE "Err",
                        response |-> result.response,
                        at |-> now]
    /\ UNCHANGED <<detailVars, classifyVars, txidVars, sendVars, redeemVars, scriptVars, taskVars, renewVars, feedVars, grpc_client, ee, callVars, walletVars, recalcVars, clientVars, histVars,
                   vtxoVars, lockVars>>

InitExitScan == Init

NextExitScan ==
    \/ Connect
    \/ ConnectWithoutArkClient
    \/ Tick
    \/ GrpcWithClient
    \/ ReceiveRedeemTransaction
    \/ CheckExitConditions

SpecExitScan == InitExitScan /\ [][NextExitScan]_vars

----------------------------------------------------------------------------
(* ExitManager::emergency_exit_all step by step:
   services/offchain/exit_manager.rs:225-261 *)

\* exit_manager.rs:228-236, 254-256: a new call fetches the spendable set; a
\* failed fetch is the call's error, a missing client gives Ok with no txid.
EeStart ==
    /\ ee.pc \in {"idle", "done"}
    /\ IF ~ark_client
       THEN ee' = [EeIdle EXCEPT !.pc = "done", !.result = "Ok"]
       ELSE \E result \in ExitVtxoResults :
               IF ~result.ok
               THEN ee' = [EeIdle EXCEPT !.pc = "done", !.rpc = "Err",
                                         !.result = "Err: Failed to get VTXOs for emergency exit"]
               ELSE ee' = [EeIdle EXCEPT !.pc = "loop", !.rpc = "Ok",
                                         !.response = result.response,
                                         !.queue = AllOutpoints(result.response)]
    /\ UNCHANGED <<detailVars, classifyVars, txidVars, sendVars, redeemVars, scriptVars, taskVars, renewVars, feedVars, grpc_client, ec, callVars, walletVars, recalcVars, clientVars, histVars,
                   vtxoVars, lockVars>>

\* One pass of the inner loop (exit_manager.rs:239-251): a pending outpoint
\* is passed over; for any other, exit_vtxo (exit_manager.rs:16-39) runs with
\* its own eligibility fetch, the exit primitive (ark_grpc.rs:942-959, always
\* Ok, a new txid each time) and update_app_state, which never returns when
\* the client lock is stuck.  The txid of an attempt is its number.
EeAttempt ==
    /\ ee.pc = "loop"
    /\ ee.queue # <<>>
    /\ LET outpoint == Head(ee.queue)
           popped == [ee EXCEPT !.queue = Tail(ee.queue)]
           txid == Len(ee.attempts) + 1
           attempt(ok) == [id |-> outpoint.outpoint, txid |-> txid, ok |-> ok]
       IN  IF outpoint.is_pending
           THEN /\ ee' = popped
                /\ UNCHANGED <<walletVars, histVars>>
           ELSE \E result \in ExitVtxoResults :
                   IF ExitEligibility(ark_client, result, outpoint.outpoint) # "Ok"
                   THEN /\ ee' = [popped EXCEPT !.attempts = Append(@, attempt(FALSE))]
                        /\ UNCHANGED <<walletVars, histVars>>
                   ELSE IF client_guard = "stuck"
                   THEN /\ ee' = [ee EXCEPT !.pc = "blocked"]
                        /\ UNCHANGED <<walletVars, histVars>>
                   ELSE \E r1 \in OffchainBalanceResults, r2 \in OffchainBalanceResults,
                           h \in ExitHistoryResults :
                           LET res == UpdateAppStateResult(balance, transactions, r1, r2, h)
                           IN  /\ StaleAfter(r1, r2) <= MaxStaleUpdates
                               /\ ee' = [popped EXCEPT
                                            !.attempts = Append(@, attempt(TRUE)),
                                            !.exit_txids = Append(@, txid)]
                               /\ balance' = res.balance
                               /\ transactions' = res.transactions
                               /\ last_op' = IF r1.ok \/ r2.ok THEN "update_app_state"
                                             ELSE last_op
                               /\ stale_updates' = StaleAfter(r1, r2)
    /\ UNCHANGED <<detailVars, classifyVars, txidVars, sendVars, redeemVars, scriptVars, taskVars, renewVars, feedVars, grpc_client, ec, callVars, recalcVars, clientVars, vtxoVars, lockVars>>

\* exit_manager.rs:260
EeReturn ==
    /\ ee.pc = "loop"
    /\ ee.queue = <<>>
    /\ ee' = [ee EXCEPT !.pc = "done", !.result = "Ok"]
    /\ UNCHANGED <<detailVars, classifyVars, txidVars, sendVars, redeemVars, scriptVars, taskVars, renewVars, feedVars, grpc_client, ec, callVars, walletVars, recalcVars, clientVars, histVars,
                   vtxoVars, lockVars>>

InitEmergency == Init

NextEmergency ==
    \/ Connect
    \/ GrpcWithClient
    \/ EeStart
    \/ EeAttempt
    \/ EeReturn

SpecEmergency == InitEmergency /\ [][NextEmergency]_vars

----------------------------------------------------------------------------
(* SubscriptionManager: services/offchain/subscription_manager.rs.  The three
   polling tasks step by step, with the mpsc channel each one feeds. *)

FeedKinds == {"scripts", "vtxo", "balance"}

\* subscription_manager.rs:17-42, 101-162, 200-231: a subscription creates the
\* channel, spawns the polling task and hands the stream to the consumer.
FeedSubscribe ==
    /\ feed.pc = "none"
    /\ \E kind \in FeedKinds : feed' = [FeedNone EXCEPT !.kind = kind, !.pc = "wait"]
    /\ chan' = [queue |-> <<>>, rx |-> "open"]
    /\ UNCHANGED <<detailVars, classifyVars, txidVars, sendVars, redeemVars, scriptVars, taskVars, renewVars, scanVars, callVars, walletVars, recalcVars, clientVars, histVars, vtxoVars,
                   lockVars>>

\* interval.tick().await (subscription_manager.rs:29, 110, 209)
FeedTick ==
    /\ feed.pc = "wait"
    /\ feed' = [feed EXCEPT !.pc = "poll"]
    /\ UNCHANGED <<detailVars, classifyVars, txidVars, sendVars, redeemVars, scriptVars, taskVars, renewVars, chan, scanVars, callVars, walletVars, recalcVars, clientVars, histVars,
                   vtxoVars, lockVars>>

FeedOutpoint(id, pending) ==
    [outpoint |-> id, amount |-> 1000, is_pending |-> pending, expire_at |-> 20000]

\* Answers of client.spendable_vtxos() seen by get_current_vtxo_state: tx1:0
\* absent, pending or confirmed, tx2:0 absent or confirmed, in one group or two.
FeedResponses ==
    LET first == {<<>>, <<FeedOutpoint("tx1:0", TRUE)>>, <<FeedOutpoint("tx1:0", FALSE)>>}
        second == <<FeedOutpoint("tx2:0", FALSE)>>
    IN  {<<Group("a1", o)>> : o \in first}
            \cup {<<Group("a1", o \o second)>> : o \in first}
            \cup {<<Group("a1", o), Group("a2", second)>> : o \in first \ {<<>>}}

FeedVtxoResults == {RpcErr} \cup {[ok |-> TRUE, response |-> r] : r \in FeedResponses}

\* subscription_manager.rs:183-189
VtxoInfo(outpoint, address) ==
    [outpoint |-> outpoint.outpoint, amount |-> outpoint.amount,
     status |-> IF outpoint.is_pending THEN "pending" ELSE "confirmed",
     expiry |-> outpoint.expire_at, address |-> address]

\* HashMap::insert with the outpoint id as key (subscription_manager.rs:182, 191):
\* a map is the set of its values, one per key.
MapInsert(state, info) == {x \in state : x.outpoint # info.outpoint} \cup {info}

MapKeys(state) == {x.outpoint : x \in state}

MapGet(state, key) == CHOOSE x \in state : x.outpoint = key

RECURSIVE InsertOutpoints(_, _, _)
InsertOutpoints(state, address, outpoints) ==
    IF outpoints = <<>> THEN state
    ELSE InsertOutpoints(MapInsert(state, VtxoInfo(Head(outpoints), address)),
                         address, Tail(outpoints))

RECURSIVE InsertGroups(_, _)
InsertGroups(state, vtxos) ==
    IF vtxos = <<>> THEN state
    ELSE InsertGroups(InsertOutpoints(state, Head(vtxos).address, Head(vtxos).outpoints),
                      Tail(vtxos))

\* get_current_vtxo_state (subscription_manager.rs:170-198): Ok with an empty
\* map without a client and after a failed fetch.
GetCurrentVtxoState(client, result) ==
    IF client /\ result.ok THEN InsertGroups({}, result.response) ELSE {}

\* The orders in which a HashMap may be iterated.
IterationOrders(state) ==
    {s \in SeqsUpTo(state, Cardinality(state)) :
        Len(s) = Cardinality(state) /\ {s[i] : i \in 1..Len(s)} = state}

FeedBalanceResults ==
    {RpcErrBalance} \cup {[ok |-> TRUE, confirmed |-> c, pending |-> p] :
                             c \in {0, 1000}, p \in {0, 500}}

\* get_current_balance (subscription_manager.rs:234-248): zero amounts without
\* a client and after a failed offchain_balance().
GetCurrentBalance(client, result) ==
    IF client /\ result.ok THEN <<result.confirmed, result.pending>> ELSE <<0, 0>>

\* subscription_manager.rs:214-219
BalanceUpdate(confirmed, pending, t) ==
    [confirmed_sats |-> confirmed, pending_sats |-> pending,
     total_sats |-> confirmed + pending, timestamp |-> t]

\* subscription_manager.rs:118-122, 130-134, 145-149
VtxoUpdate(info, update_type, t) ==
    [vtxo_info |-> info, update_type |-> update_type, timestamp |-> t]

\* The body of the loop after the tick: check_script_updates
\* (subscription_manager.rs:165-168) answers Ok with no update;
\* get_current_vtxo_state starts the two diff loops (lines 113-155);
\* get_current_balance is compared with last_balance (lines 212-213).
FeedPoll ==
    /\ feed.pc = "poll"
    /\ IF feed.kind = "scripts"
       THEN feed' = [feed EXCEPT !.pc = "wait"]
       ELSE IF feed.kind = "vtxo"
       THEN \E result \in FeedVtxoResults :
               LET current == GetCurrentVtxoState(ark_client, result)
               IN  /\ ~ark_client => result = RpcErr
                   /\ \E order \in IterationOrders(current),
                         last_order \in IterationOrders(feed.last_state) :
                         feed' = [feed EXCEPT !.pc = "loop", !.loop = 1,
                                              !.current = current,
                                              !.pending = order, !.spent = last_order,
                                              !.prev = feed.last_state,
                                              !.emitted = <<>>,
                                              !.fetched = ark_client /\ result.ok]
       ELSE \E result \in FeedBalanceResults :
               LET current == GetCurrentBalance(ark_client, result)
               IN  /\ ~ark_client => result = RpcErrBalance
                   /\ feed' = IF current # feed.last_balance
                              THEN [feed EXCEPT !.pc = "send",
                                                !.pending = <<BalanceUpdate(current[1],
                                                                            current[2], now)>>,
                                                !.fetched = ark_client /\ result.ok]
                              ELSE [feed EXCEPT !.pc = "wait",
                                                !.fetched = ark_client /\ result.ok]
    /\ UNCHANGED <<detailVars, classifyVars, txidVars, sendVars, redeemVars, scriptVars, taskVars, renewVars, chan, scanVars, callVars, walletVars, recalcVars, clientVars, histVars,
                   vtxoVars, lockVars>>

\* tokio::sync::mpsc::Sender::send on a bounded channel: an error once the
\* receiver is dropped, a wait while the queue holds FeedCapacity messages and
\* the receiver lives, the message queued otherwise.
SendOutcome(channel) ==
    IF channel.rx = "dropped" THEN "closed"
    ELSE IF Len(channel.queue) >= FeedCapacity THEN "full"
    ELSE "sent"

\* A bug variant of the diff: a key known before gets a Status event whether
\* or not its value changed.
VtxoDiffUpdate_NoChangeCheck(loop, vtxo, last_state, current, t) ==
    IF loop = 1
    THEN IF vtxo.outpoint \in MapKeys(last_state)
         THEN <<VtxoUpdate(vtxo, "Status", t)>>
         ELSE <<VtxoUpdate(vtxo, "Created", t)>>
    ELSE IF vtxo.outpoint \notin MapKeys(current)
         THEN <<VtxoUpdate(vtxo, "Spent", t)>>
         ELSE <<>>

\* What one pass of a diff loop sends for the entry vtxo: the loop over the
\* current map (subscription_manager.rs:115-140) and the loop over the last
\* map (lines 143-155).
VtxoDiffUpdate(loop, vtxo, last_state, current, t) ==
    IF loop = 1
    THEN IF vtxo.outpoint \in MapKeys(last_state)
         THEN IF vtxo # MapGet(last_state, vtxo.outpoint)
              THEN <<VtxoUpdate(vtxo, "Status", t)>>
              ELSE <<>>
         ELSE <<VtxoUpdate(vtxo, "Created", t)>>
    ELSE IF vtxo.outpoint \notin MapKeys(current)
         THEN <<VtxoUpdate(vtxo, "Spent", t)>>
         ELSE <<>>

\* One pass of a diff loop of monitor_vtxo_changes, or the end of the loop
\* (subscription_manager.rs:115-157).  A failed send breaks out of the `for`
\* it is in, not out of the polling `loop`.
FeedVtxoLoop ==
    /\ feed.pc = "loop"
    /\ LET items == IF feed.loop = 1 THEN feed.pending ELSE feed.spent
           rest(f) == IF feed.loop = 1 THEN [f EXCEPT !.pending = Tail(items)]
                      ELSE [f EXCEPT !.spent = Tail(items)]
           break(f) == IF feed.loop = 1 THEN [f EXCEPT !.pending = <<>>]
                       ELSE [f EXCEPT !.spent = <<>>]
       IN  IF items = <<>>
           THEN /\ feed' = IF feed.loop = 1 THEN [feed EXCEPT !.loop = 2]
                           ELSE [feed EXCEPT !.pc = "wait", !.loop = 0,
                                             !.last_state = feed.current]
                /\ UNCHANGED chan
           ELSE LET update == VtxoDiffUpdate(feed.loop, Head(items), feed.last_state,
                                             feed.current, now)
                    outcome == SendOutcome(chan)
                IN  IF update = <<>>
                    THEN /\ feed' = rest(feed)
                         /\ UNCHANGED chan
                    ELSE IF outcome = "closed"
                    THEN /\ feed' = break([feed EXCEPT !.waiting = FALSE])
                         /\ UNCHANGED chan
                    ELSE IF outcome = "full"
                    THEN /\ ~feed.waiting
                         /\ feed' = [feed EXCEPT !.waiting = TRUE]
                         /\ UNCHANGED chan
                    ELSE /\ feed' = rest([feed EXCEPT !.waiting = FALSE,
                                                      !.emitted = Append(@, update[1])])
                         /\ chan' = [chan EXCEPT !.queue = Append(@, update[1])]
    /\ UNCHANGED <<detailVars, classifyVars, txidVars, sendVars, redeemVars, scriptVars, taskVars, renewVars, scanVars, callVars, walletVars, recalcVars, clientVars, histVars, vtxoVars,
                   lockVars>>

\* The send of subscribe_to_balance_changes (subscription_manager.rs:221-225):
\* a failed send breaks out of the polling loop and the task ends.
FeedBalanceSend ==
    /\ feed.pc = "send"
    /\ LET update == Head(feed.pending)
           outcome == SendOutcome(chan)
       IN  IF outcome = "closed"
           THEN /\ feed' = [feed EXCEPT !.pc = "done", !.pending = <<>>, !.waiting = FALSE]
                /\ UNCHANGED chan
           ELSE IF outcome = "full"
           THEN /\ ~feed.waiting
                /\ feed' = [feed EXCEPT !.waiting = TRUE]
                /\ UNCHANGED chan
           ELSE /\ feed' = [feed EXCEPT !.pc = "wait", !.pending = <<>>, !.waiting = FALSE,
                                        !.last_balance = <<update.confirmed_sats,
                                                            update.pending_sats>>]
                /\ chan' = [chan EXCEPT !.queue = Append(@, update)]
    /\ UNCHANGED <<detailVars, classifyVars, txidVars, sendVars, redeemVars, scriptVars, taskVars, renewVars, scanVars, callVars, walletVars, recalcVars, clientVars, histVars, vtxoVars,
                   lockVars>>

\* The consumer polls its ReceiverStream (subscription_manager.rs:42, 162, 231).
FeedRecv ==
    /\ chan.rx = "open"
    /\ chan.queue # <<>>
    /\ chan' = [chan EXCEPT !.queue = Tail(@)]
    /\ UNCHANGED <<detailVars, classifyVars, txidVars, sendVars, redeemVars, scriptVars, taskVars, renewVars, feed, scanVars, callVars, walletVars, recalcVars, clientVars, histVars,
                   vtxoVars, lockVars>>

\* The consumer drops its stream: the receiver closes and the queued messages
\* are discarded.
FeedDrop ==
    /\ chan.rx = "open"
    /\ chan' = [queue |-> <<>>, rx |-> "dropped"]
    /\ UNCHANGED <<detailVars, classifyVars, txidVars, sendVars, redeemVars, scriptVars, taskVars, renewVars, feed, scanVars, callVars, walletVars, recalcVars, clientVars, histVars,
                   vtxoVars, lockVars>>

FeedTaskStep ==
    \/ FeedTick
    \/ FeedPoll
    \/ FeedVtxoLoop
    \/ FeedBalanceSend

InitFeed == Init

NextFeed ==
    \/ Connect
    \/ FeedSubscribe
    \/ FeedTick
    \/ FeedPoll
    \/ FeedVtxoLoop
    \/ FeedBalanceSend
    \/ FeedRecv
    \/ FeedDrop

SpecFeed == InitFeed /\ [][NextFeed]_vars

\* The tokio runtime keeps running a spawned task that can take a step; nothing
\* obliges the consumer to read or to drop its stream.
SpecFeedFair == SpecFeed /\ WF_vars(FeedTaskStep)

----------------------------------------------------------------------------
(* VtxoManager::check_expiry_and_renew: services/offchain/vtxo_manager.rs:103-144 *)

ExpiryWarningThreshold == 3600  \* vtxo_manager.rs:106

RenewOutpoint(pending, expire_at) ==
    [amount |-> 1000, is_pending |-> pending, expire_at |-> expire_at]

\* Expiry times around the clock range 0..MaxNow: passing during the run,
\* around now + 3600, far away.
RenewExpiries == {2, 3602, 9000}

\* Answers of client.spendable_vtxos() seen by check_expiry_and_renew: no
\* group, one group, or two groups at two addresses.
RenewResponses ==
    {<<>>}
        \cup {<<Group("a1", <<RenewOutpoint(p, e)>>)>> : p \in BOOLEAN, e \in RenewExpiries}
        \cup {<<Group("a1", <<RenewOutpoint(FALSE, e)>>),
                Group("a2", <<RenewOutpoint(FALSE, f)>>)>> :
                 e \in RenewExpiries, f \in RenewExpiries}

RenewResults == {RpcErr} \cup {[ok |-> TRUE, response |-> r] : r \in RenewResponses}

\* u64::saturating_sub
SaturatingSub(x, y) == IF x >= y THEN x - y ELSE 0

\* A bug variant of the renewal loop: an expired VTXO is not passed over.
NeedsRenewal_ExpiredCounts(states, t) ==
    \E i \in 1..Len(states) :
        SaturatingSub(states[i].earliest_expiry, t) <= ExpiryWarningThreshold

\* The loop of check_expiry_and_renew (vtxo_manager.rs:108-125) at time t.
NeedsRenewal(states, t) ==
    \E i \in 1..Len(states) :
        /\ states[i].status # "Expired"
        /\ SaturatingSub(states[i].earliest_expiry, t) <= ExpiryWarningThreshold

\* ArkGrpcService::participate_in_round called with a client
\* (ark_grpc.rs:806-838): it waits for the client lock, and after a
\* successful board it awaits update_app_state with that lock still held.
GrpcParticipateInRound(guard, answer) ==
    IF guard = "stuck" THEN [result |-> "blocked: lock", guard |-> guard]
    ELSE IF answer.ok THEN [result |-> "blocked: update_app_state", guard |-> "stuck"]
    ELSE IF "No boarding outputs" \in answer.msg /\ "No VTXOs" \in answer.msg
    THEN [result |-> "Ok(None)", guard |-> guard]
    ELSE [result |-> "Err: Error participating in round", guard |-> guard]

\* A whole call of check_expiry_and_renew (vtxo_manager.rs:103-144): the
\* refresh, the second reading of the clock, the loop and the round
\* participation.
CheckExpiryAndRenew ==
    /\ \E result \in RenewResults, t2 \in {now, now + 1} :
          LET out == RefreshOutcome(vtxo_cache, ark_client, result, now)
              called == [CrNone EXCEPT !.rpc = out.ret.rpc,
                                       !.response = out.ret.response,
                                       !.refreshed_at = now,
                                       !.checked_at = t2]
          IN  /\ t2 <= MaxNow
              /\ ~ark_client => result = RpcErr
              /\ ret' = out.ret
              /\ vtxo_cache' = out.cache
              /\ last_written' = IF out.ret.ok THEN out.cache ELSE last_written
              /\ now' = t2
              /\ IF ~out.ret.ok
                 THEN /\ cr' = [called EXCEPT !.result = "Err: " \o out.ret.err]
                      /\ UNCHANGED client_guard
                 ELSE IF ~NeedsRenewal(out.ret.states, t2)
                 THEN /\ cr' = [called EXCEPT !.result = "Ok"]
                      /\ UNCHANGED client_guard
                 ELSE \E answer \in BoardAnswers :
                         LET round == GrpcParticipateInRound(client_guard, answer)
                         IN  /\ cr' = [called EXCEPT
                                          !.joins = 1,
                                          !.result =
                                              IF round.result = "Ok(None)" THEN "Ok"
                                              ELSE IF round.result
                                                      = "Err: Error participating in round"
                                              THEN "Err: Failed to renew VTXOs"
                                              ELSE round.result]
                             /\ client_guard' = round.guard
    /\ sv' = SvNone
    /\ UNCHANGED <<detailVars, classifyVars, txidVars, sendVars, redeemVars, scriptVars, taskVars, feedVars, scanVars, callVars, walletVars, recalcVars, ark_client, histVars,
                   cache_lock, rf, rd>>

InitRenew == Init

NextRenew ==
    \/ Connect
    \/ Tick
    \/ CheckExpiryAndRenew

SpecRenew == InitRenew /\ [][NextRenew]_vars

----------------------------------------------------------------------------
(* The Mutexes around APP_STATE.balance and APP_STATE.transactions, and the
   operations that take them, step by step: services/ark_grpc.rs:582-651,
   services/mod.rs:141-204, services/wallet.rs:33-42,
   services/transactions.rs:49-96 *)

\* update_app_state is called with the client lock free and a client present
\* (ark_grpc.rs:583-585); it then asks for the balance lock (line 587).
UaStart ==
    /\ ua.pc = "idle"
    /\ ark_client
    /\ client_guard = "free"
    /\ ua' = [ua EXCEPT !.pc = "lock_balance"]
    /\ UNCHANGED <<detailVars, classifyVars, txidVars, sendVars, redeemVars, scriptVars, app_locks, cs, ga, oc, renewVars, feedVars, scanVars, callVars, walletVars,
                   recalcVars, clientVars, histVars, vtxoVars, lockVars>>

\* The balance lock is granted and the first offchain_balance call is sent
\* (ark_grpc.rs:587-590).
UaLockBalance ==
    /\ ua.pc = "lock_balance"
    /\ app_locks.balance = "none"
    /\ app_locks' = [app_locks EXCEPT !.balance = "ua"]
    /\ ua' = [ua EXCEPT !.pc = "rpc1"]
    /\ UNCHANGED <<detailVars, classifyVars, txidVars, sendVars, redeemVars, scriptVars, cs, ga, oc, renewVars, feedVars, scanVars, callVars, walletVars,
                   recalcVars, clientVars, histVars, vtxoVars, lockVars>>

\* The first offchain_balance answers; the second call is sent
\* (ark_grpc.rs:590-599).
UaRpc1 ==
    /\ ua.pc = "rpc1"
    /\ \E r1 \in OffchainBalanceResults :
          /\ balance' = UpdateAppStateResult(balance, transactions, r1, RpcErrBalance,
                                             HistoryErr).balance
          /\ last_op' = IF r1.ok THEN "update_app_state" ELSE last_op
          /\ ua' = [ua EXCEPT !.pc = "rpc2", !.r1ok = r1.ok]
    /\ UNCHANGED <<detailVars, classifyVars, txidVars, sendVars, redeemVars, scriptVars, app_locks, cs, ga, oc, renewVars, feedVars, scanVars, callVars,
                   transactions, stale_updates, recalcVars, clientVars, vtxoVars, lockVars>>

\* The second offchain_balance answers; transaction_history is sent
\* (ark_grpc.rs:599-607).
UaRpc2 ==
    /\ ua.pc = "rpc2"
    /\ \E r2 \in OffchainBalanceResults :
          LET stale == IF ua.r1ok THEN 0
                       ELSE IF r2.ok THEN stale_updates + 1 ELSE stale_updates
          IN  /\ stale <= MaxStaleUpdates
              /\ stale_updates' = stale
              /\ balance' = UpdateAppStateResult(balance, transactions, RpcErrBalance, r2,
                                                 HistoryErr).balance
              /\ last_op' = IF r2.ok THEN "update_app_state" ELSE last_op
    /\ ua' = [ua EXCEPT !.pc = "hist"]
    /\ UNCHANGED <<detailVars, classifyVars, txidVars, sendVars, redeemVars, scriptVars, app_locks, cs, ga, oc, renewVars, feedVars, scanVars, callVars,
                   transactions, recalcVars, clientVars, vtxoVars, lockVars>>

\* transaction_history answers (ark_grpc.rs:607-608): after an error the
\* function ends and drops the balance lock; otherwise it asks for the ledger
\* lock.
UaHist ==
    /\ ua.pc = "hist"
    /\ \E h \in ExitHistoryResults :
          IF h.ok
          THEN /\ ua' = [ua EXCEPT !.pc = "lock_ledger", !.history = h.txs]
               /\ UNCHANGED app_locks
          ELSE /\ ua' = UaIdle
               /\ app_locks' = [app_locks EXCEPT !.balance = "none"]
    /\ UNCHANGED <<detailVars, classifyVars, txidVars, sendVars, redeemVars, scriptVars, cs, ga, oc, renewVars, feedVars, scanVars, callVars, walletVars,
                   recalcVars, clientVars, histVars, vtxoVars, lockVars>>

\* The ledger lock is granted, the ledger is replaced and both locks are
\* dropped (ark_grpc.rs:608-645).
UaWrite ==
    /\ ua.pc = "lock_ledger"
    /\ app_locks.transactions = "none"
    /\ transactions' = [i \in 1..Len(ua.history) |-> ToTransactionResponse(ua.history[i])]
    /\ app_locks' = [app_locks EXCEPT !.balance = "none"]
    /\ ua' = UaIdle
    /\ UNCHANGED <<detailVars, classifyVars, txidVars, sendVars, redeemVars, scriptVars, cs, ga, oc, renewVars, feedVars, scanVars, callVars, balance,
                   recalcVars, clientVars, histVars, vtxoVars, lockVars>>

\* AppState::can_send asks for the balance lock (services/mod.rs:201-202).
CsStart ==
    /\ cs.pc = "idle"
    /\ cs' = [CsIdle EXCEPT !.pc = "lock_balance"]
    /\ UNCHANGED <<detailVars, classifyVars, txidVars, sendVars, redeemVars, scriptVars, app_locks, ua, ga, oc, renewVars, feedVars, scanVars, callVars, walletVars,
                   recalcVars, clientVars, histVars, vtxoVars, lockVars>>

\* The lock is granted, the balance is read and the lock dropped
\* (services/mod.rs:202-204).
CsRead ==
    /\ cs.pc = "lock_balance"
    /\ app_locks.balance = "none"
    /\ \E amount \in SendAmounts :
          cs' = [pc |-> "idle",
                 result |-> IF balance.confirmed >= amount THEN "Ok(true)" ELSE "Ok(false)"]
    /\ UNCHANGED <<detailVars, classifyVars, txidVars, sendVars, redeemVars, scriptVars, app_locks, ua, ga, oc, renewVars, feedVars, scanVars, callVars, walletVars,
                   recalcVars, clientVars, histVars, vtxoVars, lockVars>>

\* get_available_balance calls recalculate_balance, which asks for the ledger
\* lock (services/wallet.rs:34, services/mod.rs:142).
GaStart ==
    /\ ga.pc = "idle"
    /\ ga' = [GaIdle EXCEPT !.pc = "lock_ledger"]
    /\ UNCHANGED <<detailVars, classifyVars, txidVars, sendVars, redeemVars, scriptVars, app_locks, ua, cs, oc, renewVars, feedVars, scanVars, callVars, walletVars,
                   recalcVars, clientVars, histVars, vtxoVars, lockVars>>

\* The ledger lock is granted; recalculate_balance asks for the balance lock
\* (services/mod.rs:142-143).
GaLockLedger ==
    /\ ga.pc = "lock_ledger"
    /\ app_locks.transactions = "none"
    /\ app_locks' = [app_locks EXCEPT !.transactions = "ga"]
    /\ ga' = [ga EXCEPT !.pc = "lock_balance"]
    /\ UNCHANGED <<detailVars, classifyVars, txidVars, sendVars, redeemVars, scriptVars, ua, cs, oc, renewVars, feedVars, scanVars, callVars, walletVars,
                   recalcVars, clientVars, histVars, vtxoVars, lockVars>>

\* The balance lock is granted, the balance is recomputed and both locks are
\* dropped (services/mod.rs:143-199).
GaRecalc ==
    /\ ga.pc = "lock_balance"
    /\ app_locks.balance = "none"
    /\ balance' = RecalculateBalance(transactions)
    /\ Recalculated
    /\ app_locks' = [app_locks EXCEPT !.transactions = "none"]
    /\ ga' = [ga EXCEPT !.pc = "read"]
    /\ UNCHANGED <<detailVars, classifyVars, txidVars, sendVars, redeemVars, scriptVars, ua, cs, oc, renewVars, feedVars, scanVars, callVars, transactions,
                   recalcVars, clientVars, vtxoVars, lockVars>>

\* get_available_balance takes the balance lock again and reads
\* (services/wallet.rs:36-41).
GaRead ==
    /\ ga.pc = "read"
    /\ app_locks.balance = "none"
    /\ ga' = [pc |-> "idle", result |-> balance.confirmed]
    /\ UNCHANGED <<detailVars, classifyVars, txidVars, sendVars, redeemVars, scriptVars, app_locks, ua, cs, oc, renewVars, feedVars, scanVars, callVars, walletVars,
                   recalcVars, clientVars, histVars, vtxoVars, lockVars>>

\* get_onchain_transactions asks for the ledger lock to collect the known
\* txids (services/transactions.rs:49-59).
OcStart ==
    /\ oc.pc = "idle"
    /\ oc' = [OcIdle EXCEPT !.pc = "lock_ledger"]
    /\ UNCHANGED <<detailVars, classifyVars, txidVars, sendVars, redeemVars, scriptVars, app_locks, ua, cs, ga, renewVars, feedVars, scanVars, callVars, walletVars,
                   recalcVars, clientVars, histVars, vtxoVars, lockVars>>

\* The lock is granted, the txids are copied and the lock is dropped; the
\* address history is requested (services/transactions.rs:58-63).
OcSnapshot ==
    /\ oc.pc = "lock_ledger"
    /\ app_locks.transactions = "none"
    /\ oc' = [oc EXCEPT !.pc = "fetch"]
    /\ UNCHANGED <<detailVars, classifyVars, txidVars, sendVars, redeemVars, scriptVars, app_locks, ua, cs, ga, renewVars, feedVars, scanVars, callVars, walletVars,
                   recalcVars, clientVars, histVars, vtxoVars, lockVars>>

\* The address history answers: an error or nothing new ends the call, a new
\* transaction is to be saved (services/transactions.rs:63-83).
OcFetch ==
    /\ oc.pc = "fetch"
    /\ \E found \in {<<>>, <<TransactionResponse(60000, "OnChain", SomeTrue)>>} :
          oc' = IF found = <<>> THEN OcIdle ELSE [pc |-> "save", found |-> found]
    /\ UNCHANGED <<detailVars, classifyVars, txidVars, sendVars, redeemVars, scriptVars, app_locks, ua, cs, ga, renewVars, feedVars, scanVars, callVars, walletVars,
                   recalcVars, clientVars, histVars, vtxoVars, lockVars>>

\* The ledger lock is granted again and the new transactions are appended
\* (services/transactions.rs:84-93).
OcSave ==
    /\ oc.pc = "save"
    /\ app_locks.transactions = "none"
    /\ Len(transactions) < MaxLedger
    /\ transactions' = transactions \o oc.found
    /\ oc' = OcIdle
    /\ UNCHANGED <<detailVars, classifyVars, txidVars, sendVars, redeemVars, scriptVars, app_locks, ua, cs, ga, renewVars, feedVars, scanVars, callVars, balance,
                   recalcVars, clientVars, histVars, vtxoVars, lockVars>>

InitLocks == Init

NextLocks ==
    \/ Connect
    \/ UaStart
    \/ UaLockBalance
    \/ UaRpc1
    \/ UaRpc2
    \/ UaHist
    \/ UaWrite
    \/ CsStart
    \/ CsRead
    \/ GaStart
    \/ GaLockLedger
    \/ GaRecalc
    \/ GaRead
    \/ OcStart
    \/ OcSnapshot
    \/ OcFetch
    \/ OcSave

SpecLocks == InitLocks /\ [][NextLocks]_vars

----------------------------------------------------------------------------
(* ScriptManager: services/offchain/script_manager.rs.  A script is the
   sequence of its instructions; an instruction is an opcode, the push of an
   x-only key, or the push of a number. *)

Opcode(name) == [op |-> name, key |-> "", data |-> <<>>]

\* Builder::push_x_only_key (script_manager.rs:25, 90, 171)
PushXOnlyKey(pk) == [op |-> "OP_PUSHBYTES_32", key |-> pk, data |-> <<>>]

RECURSIVE LittleEndian(_)
\* The bytes of a positive script number, least significant first, with a
\* zero byte appended when the top bit of the last byte is set.
LittleEndian(n) ==
    IF n < 128 THEN <<n>>
    ELSE IF n < 256 THEN <<n, 0>>
    ELSE <<n % 256>> \o LittleEndian(n \div 256)

\* Builder::push_int for a value >= 0 (script_manager.rs:22, 92, 179): OP_0,
\* OP_PUSHNUM_1..16, or the push of the minimal script number.
PushInt(n) ==
    IF n = 0 THEN [op |-> "OP_0", key |-> "", data |-> <<>>]
    ELSE IF n <= 16 THEN [op |-> "OP_PUSHNUM", key |-> "", data |-> <<n>>]
    ELSE [op |-> "OP_PUSHBYTES", key |-> "", data |-> LittleEndian(n)]

\* csv_sig_script (script_manager.rs:15-30)
CsvSigScript(locktime, user_pk, server_pk) ==
    <<PushInt(locktime), Opcode("OP_CSV"), Opcode("OP_DROP"),
      PushXOnlyKey(user_pk), Opcode("OP_CHECKSIGVERIFY"),
      PushXOnlyKey(server_pk), Opcode("OP_CHECKSIG")>>

\* multisig_script (script_manager.rs:33-44)
MultisigScript(user_pk, server_pk) ==
    <<PushXOnlyKey(user_pk), Opcode("OP_CHECKSIGVERIFY"),
      PushXOnlyKey(server_pk), Opcode("OP_CHECKSIG")>>

\* create_exit_script (script_manager.rs:84-98)
CreateExitScript(user_pk, delay) ==
    <<PushXOnlyKey(user_pk), Opcode("OP_CHECKSIGVERIFY"), PushInt(delay), Opcode("OP_CSV")>>

\* A bug variant of the exit path of create_vtxo_script: the timelocked leaf
\* that also wants the server's signature.
VtxoExitScript_WithServer(user_pk, server_pk, exit_delay) ==
    CsvSigScript(exit_delay, user_pk, server_pk)

\* The exit path of create_vtxo_script (script_manager.rs:178-184)
VtxoExitScript(user_pk, server_pk, exit_delay) ==
    <<PushInt(exit_delay), Opcode("OP_CSV"), Opcode("OP_DROP"),
      PushXOnlyKey(user_pk), Opcode("OP_CHECKSIG")>>

\* create_vtxo_script (script_manager.rs:163-187): the forfeit script and the
\* exit script.
CreateVtxoScript(user_pk, server_pk, exit_delay) ==
    <<MultisigScript(user_pk, server_pk), VtxoExitScript(user_pk, server_pk, exit_delay)>>

ScriptKeys == {"pk_user", "pk_other", "pk_server"}

\* Delays (u32): the values push_int encodes as an opcode, one and two byte
\* numbers, and numbers whose top bit needs the extra byte.
ScriptDelays == {0, 1, 16, 17, 127, 128, 144, 255, 256, 3600, 32768, 65535, 2592000}

ScriptCall(op, user_pk, server_pk, delay, scripts) ==
    [op |-> op, user_pk |-> user_pk, server_pk |-> server_pk, delay |-> delay,
     scripts |-> scripts]

\* A call of one of the script constructors.
ScriptManagerCall ==
    /\ \E user_pk \in ScriptKeys, server_pk \in ScriptKeys, delay \in ScriptDelays :
          \/ sm' = ScriptCall("create_exit_script", user_pk, "", delay,
                              <<CreateExitScript(user_pk, delay)>>)
          \/ sm' = ScriptCall("create_vtxo_script", user_pk, server_pk, delay,
                              CreateVtxoScript(user_pk, server_pk, delay))
          \/ sm' = ScriptCall("csv_sig_script", user_pk, server_pk, delay,
                              <<CsvSigScript(delay, user_pk, server_pk)>>)
          \/ sm' = ScriptCall("multisig_script", user_pk, server_pk, 0,
                              <<MultisigScript(user_pk, server_pk)>>)
    /\ UNCHANGED <<detailVars, classifyVars, txidVars, sendVars, redeemVars, taskVars, renewVars, feedVars, scanVars, callVars, walletVars, recalcVars,
                   clientVars, histVars, vtxoVars, lockVars>>

InitScript == Init

NextScript == ScriptManagerCall

SpecScript == InitScript /\ [][NextScript]_vars

----------------------------------------------------------------------------
(* create_redeem_transaction step by step, one task per call:
   services/transactions.rs:230-265, services/wallet.rs:33-42 *)

RedeemAmounts == {40000, 60000}

\* The call is made; get_available_balance runs recalculate_balance
\* (transactions.rs:239, wallet.rs:34).
RtStart(t) ==
    /\ rt[t].pc = "idle"
    /\ \E amount \in RedeemAmounts :
          rt' = [rt EXCEPT ![t] = [RtIdle EXCEPT !.pc = "read", !.amount = amount]]
    /\ balance' = RecalculateBalance(transactions)
    /\ Recalculated
    /\ UNCHANGED <<detailVars, classifyVars, txidVars, sendVars, scriptVars, taskVars, renewVars, feedVars, scanVars, callVars, transactions,
                   recalcVars, clientVars, vtxoVars, lockVars>>

\* get_available_balance reads balance.confirmed; the amount is compared with
\* it (wallet.rs:36-41, transactions.rs:240-245).
RtRead(t) ==
    /\ rt[t].pc = "read"
    /\ LET available_balance == balance.confirmed
       IN  rt' = [rt EXCEPT ![t] =
                     IF available_balance < rt[t].amount
                     THEN [@ EXCEPT !.pc = "done", !.available = available_balance,
                                    !.result = "Err(Insufficient balance)"]
                     ELSE [@ EXCEPT !.pc = "push", !.available = available_balance]]
    /\ UNCHANGED <<detailVars, classifyVars, txidVars, sendVars, scriptVars, taskVars, renewVars, feedVars, scanVars, callVars, walletVars,
                   recalcVars, clientVars, histVars, vtxoVars, lockVars>>

\* The pending outgoing entry is appended under the ledger lock
\* (transactions.rs:250-260).
RtPush(t) ==
    /\ rt[t].pc = "push"
    /\ transactions' = Append(transactions,
                              TransactionResponse(-rt[t].amount, "Redeem", SomeFalse))
    /\ rt' = [rt EXCEPT ![t].pc = "recalc"]
    /\ UNCHANGED <<detailVars, classifyVars, txidVars, sendVars, scriptVars, taskVars, renewVars, feedVars, scanVars, callVars, balance,
                   recalcVars, clientVars, histVars, vtxoVars, lockVars>>

\* recalculate_balance runs and the entry is returned (transactions.rs:262-264).
RtRecalc(t) ==
    /\ rt[t].pc = "recalc"
    /\ balance' = RecalculateBalance(transactions)
    /\ Recalculated
    /\ rt' = [rt EXCEPT ![t].pc = "done", ![t].result = "Ok"]
    /\ UNCHANGED <<detailVars, classifyVars, txidVars, sendVars, scriptVars, taskVars, renewVars, feedVars, scanVars, callVars, transactions,
                   recalcVars, clientVars, vtxoVars, lockVars>>

InitRedeem == Init

NextRedeem ==
    \/ \E t \in RedeemTasks : RtStart(t)
    \/ \E t \in RedeemTasks : RtRead(t)
    \/ \E t \in RedeemTasks : RtPush(t)
    \/ \E t \in RedeemTasks : RtRecalc(t)

SpecRedeem == InitRedeem /\ [][NextRedeem]_vars

----------------------------------------------------------------------------
(* ArkOffChainService::send_vtxo step by step, two concurrent callers:
   services/offchain/mod.rs:63-89, transaction_builder.rs:16-44,
   ark_grpc.rs:699-755 *)

\* Outcomes of ArkGrpcService::send_vtxo once it has the client: the address
\* does not parse (ark_grpc.rs:705-716), client.send_vtxo fails (744-747),
\* the PSBT does not yield a transaction (738-741), or all succeed.
SendOutcomes == {"parse Err", "send Err", "extract Err", "Ok"}

\* The call validates its parameters, refreshes the VTXO list and compares
\* the amount with the Confirmed total (offchain/mod.rs:63-82).
SndCheck(t) ==
    /\ snd[t].pc = "idle"
    /\ \E address \in SendAddresses, amount \in VtxoSendAmounts :
          LET called == [SndIdle EXCEPT !.amount = amount, !.pc = "done"]
          IN
          IF ValidateTransactionParams(address, amount) # "Ok"
          THEN /\ snd' = [snd EXCEPT ![t] = [called EXCEPT !.result = "Err: invalid"]]
               /\ UNCHANGED <<vtxo_cache, last_written>>
          ELSE \E result \in CoordinatorResults :
               LET out == RefreshOutcome(vtxo_cache, ark_client, result, now)
                   total_balance == TotalBalance(out.ret.states)
                   checked == [called EXCEPT !.response = out.ret.response,
                                             !.total_balance = total_balance]
               IN  /\ vtxo_cache' = out.cache
                   /\ last_written' = IF out.ret.ok THEN out.cache ELSE last_written
                   /\ snd' = [snd EXCEPT ![t] =
                                 IF ~out.ret.ok
                                 THEN [checked EXCEPT !.result = "Err: refresh"]
                                 ELSE IF total_balance < amount
                                 THEN [checked EXCEPT !.result = "Err: insufficient"]
                                 ELSE [checked EXCEPT
                                          !.pc = "build",
                                          !.overlaps = \E u \in SendTasks \ {t} :
                                                          snd[u].pc = "build"]]
    /\ UNCHANGED <<detailVars, classifyVars, txidVars, redeemVars, scriptVars, taskVars, renewVars, feedVars, scanVars, callVars,
                   walletVars, recalcVars, clientVars, histVars, now, ret, sv, cache_lock,
                   rf, rd>>

\* build_vtxo_transfer hands the transfer to ArkGrpcService::send_vtxo, which
\* takes the client lock, calls client.send_vtxo and, after a success, awaits
\* update_app_state with the lock still held (transaction_builder.rs:26-43,
\* ark_grpc.rs:700-747).
SndSend(t) ==
    /\ snd[t].pc = "build"
    /\ \E outcome \in SendOutcomes :
          LET grpc == GrpcSendVtxo(ark_client, client_guard, outcome = "Ok")
              blocked == grpc.result \in {"blocked: lock", "blocked: update_app_state"}
          IN  /\ client_guard' = grpc.guard
              /\ snd' = [snd EXCEPT ![t] =
                            [@ EXCEPT !.pc = IF blocked THEN "blocked" ELSE "done",
                                      !.sent = /\ client_guard = "free"
                                               /\ ark_client
                                               /\ outcome # "parse Err",
                                      !.result = grpc.result]]
    /\ UNCHANGED <<detailVars, classifyVars, txidVars, redeemVars, scriptVars, taskVars, renewVars, feedVars, scanVars, callVars,
                   walletVars, recalcVars, ark_client, histVars, vtxoVars, lockVars>>

InitSend == Init

NextSend ==
    \/ Connect
    \/ \E t \in SendTasks : SndCheck(t)
    \/ \E t \in SendTasks : SndSend(t)

SpecSend == InitSend /\ [][NextSend]_vars

----------------------------------------------------------------------------
(* The txids of the ledger: services/transactions.rs:10-96,
   services/ark_grpc.rs:786-804 *)

\* Transactions the block explorer may report for the wallet's address.
OnchainTxids == {Txid("aa11", 0), Txid("bb22", 0)}

\* Answers of get_all_address_transactions (transactions.rs:99-137): the
\* entries of a HashMap keyed by txid, in any order.
OnchainAnswers ==
    {s \in SeqsUpTo(OnchainTxids, Cardinality(OnchainTxids)) :
        \A i, j \in 1..Len(s) : i # j => s[i] # s[j]}

RECURSIVE NewOnchain(_, _)
\* transactions.rs:65-81: the reported transactions whose txid is not known.
NewOnchain(all_transactions, existing_txids) ==
    IF all_transactions = <<>> THEN <<>>
    ELSE IF Head(all_transactions) \in existing_txids
    THEN NewOnchain(Tail(all_transactions), existing_txids)
    ELSE <<Head(all_transactions)>> \o NewOnchain(Tail(all_transactions), existing_txids)

\* get_transaction_history takes the APP_STATE.grpc_client lock and keeps it
\* to its end (transactions.rs:14); get_onchain_transactions then copies the
\* known txids under the ledger lock (transactions.rs:58-61).
FtSnapshot(t) ==
    /\ ft[t].pc = "idle"
    /\ \A u \in FetchTasks : ft[u].pc = "idle"
    /\ ft' = [ft EXCEPT ![t] = [pc |-> "fetch",
                                existing_txids |-> {txids[i] : i \in 1..Len(txids)}]]
    /\ UNCHANGED <<detailVars, classifyVars, txids, sendVars, redeemVars, scriptVars, taskVars, renewVars, feedVars,
                   scanVars, callVars, walletVars, recalcVars, clientVars, histVars,
                   vtxoVars, lockVars>>

\* The explorer answers; the unknown transactions are appended to the ledger
\* and the call returns, releasing the lock (transactions.rs:63-96, 34-47).
FtSave(t) ==
    /\ ft[t].pc = "fetch"
    /\ \E all_transactions \in OnchainAnswers :
          LET new == NewOnchain(all_transactions, ft[t].existing_txids)
          IN  /\ Len(txids) + Len(new) <= MaxTxids
              /\ txids' = txids \o new
              /\ transactions' = transactions \o
                     [i \in 1..Len(new) |-> TransactionResponse(60000, "OnChain", SomeTrue)]
    /\ ft' = [ft EXCEPT ![t] = FtIdle]
    /\ UNCHANGED <<detailVars, classifyVars, sendVars, redeemVars, scriptVars, taskVars, renewVars, feedVars,
                   scanVars, callVars, balance, recalcVars, clientVars, histVars,
                   vtxoVars, lockVars>>

\* ArkGrpcService::check_deposits without a client (ark_grpc.rs:790-804): the
\* entry's txid is made of the current second.
CheckDepositsTxid ==
    /\ ~ark_client
    /\ Len(txids) < MaxTxids
    /\ txids' = Append(txids, Txid("deposit_", now))
    /\ transactions' = Append(transactions,
                              TransactionResponse(DepositAmount, "Boarding", SomeTrue))
    /\ balance' = RecalculateBalance(transactions')
    /\ Recalculated
    /\ UNCHANGED <<detailVars, classifyVars, ft, sendVars, redeemVars, scriptVars, taskVars, renewVars, feedVars,
                   scanVars, callVars, recalcVars, clientVars, vtxoVars, lockVars>>

InitTxids == Init

NextTxids ==
    \/ Tick
    \/ \E t \in FetchTasks : FtSnapshot(t)
    \/ \E t \in FetchTasks : FtSave(t)
    \/ CheckDepositsTxid

SpecTxids == InitTxids /\ [][NextTxids]_vars

----------------------------------------------------------------------------
(* The three matches on an error of client.board:
   services/offchain/round_coordinator.rs:44-51, services/ark_grpc.rs:830-838,
   services/transactions.rs:212-221 *)

\* Phrases an error message of client.board may contain; a message is the
\* set of the phrases it contains.
ErrorPhrases ==
    {"No boarding outputs", "No VTXOs", "connection refused", "timed out",
     "round failed", "invalid signature", "insufficient funds"}

BoardErrorMessages == SUBSET ErrorPhrases

\* client.board fails with a message; each path matches on it: the round
\* coordinator, ArkGrpcService::participate_in_round with the client lock
\* free, and services::transactions::participate_in_round.
BoardFails ==
    /\ \E msg \in BoardErrorMessages :
          LET answer == [ok |-> FALSE, msg |-> msg]
          IN  cl' = [called |-> TRUE,
                     msg |-> msg,
                     coordinator |-> RoundJoinResult(answer),
                     grpc |-> GrpcParticipateInRound("free", answer).result,
                     svc |-> SvcBoardErrResult(answer)]
    /\ UNCHANGED <<detailVars, txidVars, sendVars, redeemVars, scriptVars, taskVars, renewVars, feedVars,
                   scanVars, callVars, walletVars, recalcVars, clientVars, histVars,
                   vtxoVars, lockVars>>

InitClassify == Init

NextClassify == BoardFails

SpecClassify == InitClassify /\ [][NextClassify]_vars

----------------------------------------------------------------------------
(* The on-chain TransactionBuilder::calculate_transaction_details:
   services/onchain/transaction_builder.rs:119-193,
   services/onchain/utxo_manager.rs:68-101.  A UTXO is its amount. *)

MinFee == 160
DustThreshold == 546

\* transaction_builder.rs:176-193 (integer division for the witness discount)
EstimateTransactionSize(num_inputs, num_outputs) ==
    LET base_size == 10
        input_size == num_inputs * 41
        output_size == num_outputs * 31
        witness_size == num_inputs * 27
        non_witness_size == base_size + input_size + output_size
    IN  non_witness_size + (witness_size \div 4)

\* FeeRate::fee_vb for a rate of whole satoshis per virtual byte
\* (transaction_builder.rs:128, 139).
FeeVb(fee_rate, size) == fee_rate * size

RECURSIVE SumUtxos(_)
SumUtxos(utxos) ==
    IF utxos = <<>> THEN 0 ELSE Head(utxos) + SumUtxos(Tail(utxos))

RECURSIVE SortLargestFirst(_)
\* utxo_manager.rs:70-71: a stable sort by descending amount.
SortLargestFirst(utxos) ==
    IF utxos = <<>> THEN <<>>
    ELSE LET rest == SortLargestFirst(Tail(utxos))
             before == SelectSeq(rest, LAMBDA x : x > Head(utxos))
             after == SelectSeq(rest, LAMBDA x : x <= Head(utxos))
         IN  before \o <<Head(utxos)>> \o after

RECURSIVE TakeUntil(_, _, _, _)
\* utxo_manager.rs:76-83: push, add, stop once the target is reached.
TakeUntil(sorted_utxos, selected, total_selected, target_amount) ==
    IF sorted_utxos = <<>> THEN selected
    ELSE LET taken == Append(selected, Head(sorted_utxos))
             total == total_selected + Head(sorted_utxos)
         IN  IF total >= target_amount THEN taken
             ELSE TakeUntil(Tail(sorted_utxos), taken, total, target_amount)

\* UtxoManager::select_utxos (utxo_manager.rs:68-101)
SelectUtxos(utxos, target_amount) ==
    LET selected == TakeUntil(SortLargestFirst(utxos), <<>>, 0, target_amount)
    IN  [ok |-> SumUtxos(selected) >= target_amount, selected |-> selected]

\* calculate_transaction_details (transaction_builder.rs:119-174).  Amount
\* subtraction panics when the result would be negative (line 147).
CalculateTransactionDetails(available_utxos, amount, fee_rate) ==
    LET estimated_fee == FeeVb(fee_rate, EstimateTransactionSize(1, 2))
        total_needed == amount + estimated_fee
        selection == SelectUtxos(available_utxos, total_needed)
        selected_utxos == selection.selected
        total_input == SumUtxos(selected_utxos)
        computed_fee == FeeVb(fee_rate, EstimateTransactionSize(Len(selected_utxos), 2))
        actual_fee == IF computed_fee < MinFee THEN MinFee ELSE computed_fee
        change_amount == total_input - amount - actual_fee
        final_change == IF change_amount < DustThreshold THEN 0 ELSE change_amount
        final_fee == IF final_change = 0 THEN actual_fee + change_amount ELSE actual_fee
    IN  IF ~selection.ok
        THEN [result |-> "Err: Insufficient funds", selected |-> <<>>, fee |-> 0, change |-> 0]
        ELSE IF change_amount < 0
        THEN [result |-> "panic", selected |-> selected_utxos, fee |-> 0, change |-> 0]
        ELSE IF total_input < amount + final_fee
        THEN [result |-> "Err: Insufficient funds after fee calculation",
              selected |-> selected_utxos, fee |-> 0, change |-> 0]
        ELSE [result |-> "Ok", selected |-> selected_utxos, fee |-> final_fee,
              change |-> final_change]

UtxoAmounts == {600, 700, 1119, 1300, 2000}
OnchainAmounts == {500, 1000}
FeeRates == {1, 2}

\* A call of calculate_transaction_details, through estimate_fee or
\* build_transaction (transaction_builder.rs:45-71).
EstimateFee ==
    /\ \E available_utxos \in SeqsUpTo(UtxoAmounts, MaxUtxos), amount \in OnchainAmounts,
          fee_rate \in FeeRates :
          LET out == CalculateTransactionDetails(available_utxos, amount, fee_rate)
          IN  td' = [called |-> TRUE, available_utxos |-> available_utxos,
                     amount |-> amount, fee_rate |-> fee_rate, result |-> out.result,
                     selected |-> out.selected, fee |-> out.fee, change |-> out.change]
    /\ UNCHANGED <<classifyVars, txidVars, sendVars, redeemVars, scriptVars, taskVars, renewVars,
                   feedVars, scanVars, callVars, walletVars, recalcVars, clientVars,
                   histVars, vtxoVars, lockVars>>

InitDetails == Init

NextDetails == EstimateFee

SpecDetails == InitDetails /\ [][NextDetails]_vars

----------------------------------------------------------------------------
(* Claims about the wallet state (checked under Spec) *)

\* C2: after every completed wallet operation the stored balance equals
\* recalculate_balance applied to the ledger as it is at that moment.
C2_BalanceIsFoldOfLedger == balance = RecalculateBalance(transactions)

\* C5: in every wallet state total = confirmed + trusted_pending
\* + untrusted_pending + immature.
C5_TotalIsSum ==
    balance.total = balance.confirmed + balance.trusted_pending
                    + balance.untrusted_pending + balance.immature

\* update_app_state has completed with both balance calls answered, after a
\* recalculation had left a non-zero untrusted_pending.
C5_Witness ==
    /\ last_op = "update_app_state"
    /\ balance.confirmed = 2000
    /\ balance.trusted_pending = 1000
    /\ balance.total = 3000

----------------------------------------------------------------------------
(* Claims about the VTXO manager and the send facade (checked under SpecVtxo) *)

RECURSIVE ConfirmedSum(_)
ConfirmedSum(states) ==
    IF Len(states) = 0 THEN 0
    ELSE (IF states[Len(states)].status = "Confirmed"
          THEN states[Len(states)].total_amount ELSE 0)
         + ConfirmedSum(SubSeq(states, 1, Len(states) - 1))

RECURSIVE AllSum(_)
AllSum(states) ==
    IF Len(states) = 0 THEN 0
    ELSE states[Len(states)].total_amount + AllSum(SubSeq(states, 1, Len(states) - 1))

C7_Step ==
    (sv'.refreshed /\ ret'.ok /\ ConfirmedSum(ret'.states) < sv'.amount)
        => /\ sv'.result = "Err: insufficient"
           /\ ~sv'.sent
           /\ transactions' = transactions

\* C7: when the Confirmed-status VTXOs returned by the refresh that send_vtxo
\* has just made sum to less than the requested amount, send_vtxo returns the
\* insufficient-balance error, has not invoked the transport's send and has
\* added no ledger entry.
C7_InsufficientSendRejected == [][C7_Step]_vars

\* A send of 1000 was rejected although the refreshed VTXOs hold at least 1000
\* in all: only the Confirmed ones count.
C7_Witness ==
    /\ sv.refreshed
    /\ ret.ok
    /\ sv.amount = 1000
    /\ ConfirmedSum(ret.states) < 1000
    /\ AllSum(ret.states) >= 1000
    /\ sv.result = "Err: insufficient"

NonEmptyGroups(response) == SelectSeq(response, LAMBDA g : g.outpoints # <<>>)

RECURSIVE AmountSum(_)
AmountSum(outpoints) ==
    IF Len(outpoints) = 0 THEN 0
    ELSE outpoints[Len(outpoints)].amount
         + AmountSum(SubSeq(outpoints, 1, Len(outpoints) - 1))

ExpiredAt(outpoints, t) == \E i \in 1..Len(outpoints) : outpoints[i].expire_at <= t

\* C8: a successful get_spendable_vtxos returns one VtxoState per non-empty
\* group of the coordinator's answer, with status Expired exactly when the
\* minimum expire_at of the group is <= now, otherwise Pending exactly when
\* some outpoint is pending, otherwise Confirmed, never Spent, and with
\* total_amount the sum of the group's outpoint amounts.
C8_RefreshClassification ==
    ret.ok =>
        LET groups == NonEmptyGroups(ret.response)
        IN  /\ Len(ret.states) = Len(groups)
            /\ \A i \in 1..Len(groups) :
                  LET s == ret.states[i]
                      o == groups[i].outpoints
                  IN  /\ s.address = groups[i].address
                      /\ s.outpoints = o
                      /\ s.status \in {"Expired", "Pending", "Confirmed"}
                      /\ s.status = "Expired" <=> ExpiredAt(o, now)
                      /\ s.status = "Pending" <=> (~ExpiredAt(o, now) /\ AnyPending(o))
                      /\ s.status = "Confirmed" <=> (~ExpiredAt(o, now) /\ ~AnyPending(o))
                      /\ s.status # "Spent"
                      /\ s.total_amount = AmountSum(o)

\* A refresh returned a group that is Expired with its minimum expiry equal to
\* now and with a pending outpoint, next to an empty group that was skipped.
C8_Witness ==
    /\ ret.ok
    /\ Len(ret.response) = 2
    /\ Len(ret.states) = 1
    /\ ret.states[1].status = "Expired"
    /\ ret.states[1].earliest_expiry = now
    /\ AnyPending(ret.states[1].outpoints)

C10_Step ==
    /\ (ret' # NotCalled /\ ~ark_client') =>
            (~ret'.ok /\ ret'.err = "Ark client not available")
    /\ ret'.rpc = "Err" =>
            (~ret'.ok /\ ret'.err = "Failed to get spendable VTXOs")
    /\ (ret' # NotCalled /\ ~ret'.ok) =>
            /\ vtxo_cache' = vtxo_cache
            /\ vtxo_cache' = last_written'
            /\ BalanceBreakdown(vtxo_cache') = BalanceBreakdown(last_written)

\* C10: get_spendable_vtxos returns an error when there is no Ark client
\* session and when the coordinator call fails; a failed call leaves the cache
\* exactly as the last successful refresh wrote it, and get_balance_breakdown
\* still returns that refresh's values.
C10_FailedRefreshKeepsCache == [][C10_Step]_vars

\* The coordinator call failed while the cache held Confirmed value written by
\* an earlier refresh.
C10_Witness ==
    /\ ret.rpc = "Err"
    /\ ~ret.ok
    /\ vtxo_cache # EmptyCache
    /\ BalanceBreakdown(vtxo_cache)[1] > 0

C11_Step ==
    sv'.transferred => (sv'.result = "Ok" /\ sv'.refreshes = 2)

\* C11: once the transport's send has succeeded, send_vtxo refreshes the VTXO
\* cache a second time and returns Ok(txid), whatever that refresh returns.
C11_RefreshAfterSend == [][C11_Step]_vars

C12_Step ==
    sv'.transferred => \E a \in DOMAIN vtxo_cache' : vtxo_cache'[a].status = "Spent"

\* C12: after a send_vtxo whose transfer succeeded, the cache entries of the
\* spent VTXOs carry status Spent (until the next refresh replaces the cache).
C12_SpentMarkedAfterSend == [][C12_Step]_vars

----------------------------------------------------------------------------
(* Claims about the transaction builder (checked under SpecBuilder) *)

\* C13: validate_transaction_params returns an error for every address when
\* the amount is 0 or lies in 1..545, and Ok for every non-empty address with
\* an amount of at least 546.
C13_DustRejected ==
    tb.op = "validate_transaction_params" =>
        /\ tb.amount \in 0..545 => tb.result # "Ok"
        /\ (tb.address # "" /\ tb.amount >= 546) => tb.result = "Ok"

\* 545 satoshis to a well-formed address were rejected as below the minimum.
C13_Witness ==
    /\ tb.op = "validate_transaction_params"
    /\ tb.address = "tark1q"
    /\ tb.amount = 545
    /\ tb.result = "Err: Amount is below minimum"

\* C14: build_vtxo_transfer and build_redeem_transaction invoke the
\* transport's send only for parameters validate_transaction_params accepts:
\* an amount of 0 or below 546 satoshis never reaches the transport.
C14_BuildValidatesBeforeSend ==
    (tb.op \in {"build_vtxo_transfer", "build_redeem_transaction"} /\ tb.sent)
        => (tb.address # "" /\ tb.amount >= 546)

C15_Step ==
    (tb'.seq # tb.seq /\ tb'.op = "build_vtxo_transfer")
        => (transactions' = transactions /\ balance' = balance)

----------------------------------------------------------------------------
(* Claims about the round coordinator (checked under SpecRound) *)

\* C16: participate calls client.board only when check_for_inputs held, and
\* check_for_inputs holds only if a VTXO outpoint is within 2 hours of expiry
\* or a confirmed unregistered boarding output exists; with neither,
\* participate returns Ok(None) and makes no board call.
C16_JoinOnlyWithInputs ==
    /\ rnd.boards > 0 => rnd.has_inputs
    /\ rnd.has_inputs => (rnd.near \/ rnd.boarding)
    /\ (rnd.pc = "returned" /\ ark_client /\ ~rnd.near /\ ~rnd.boarding)
            => (rnd.result = "Ok(None)" /\ rnd.boards = 0)

\* C17: once the 30 seconds have passed participate is no longer waiting for
\* the round-join call: it has returned (with a Timeout error).
C17_ParticipateBounded == rnd.elapsed => rnd.pc # "board"

\* C19: when client.board fails, participate returns Ok(None) if the error
\* message says there is nothing to board and Err for every other error, and
\* never Ok(Some(_)).
C19_FailedJoinClassified ==
    (rnd.pc = "returned" /\ rnd.answer # <<>> /\ ~rnd.answer[1].ok) =>
        /\ "No boarding outputs" \in rnd.answer[1].msg => rnd.result = "Ok(None)"
        /\ "No boarding outputs" \notin rnd.answer[1].msg
                => rnd.result = "Err: Round participation failed"
        /\ rnd.result # "Ok(Some)"

\* client.board failed with a message that only says "No boarding outputs"
\* and participate returned Ok(None).
C19_Witness ==
    /\ rnd.pc = "returned"
    /\ rnd.answer = <<[ok |-> FALSE, msg |-> {"No boarding outputs"}]>>
    /\ rnd.result = "Ok(None)"

\* C18: when round participation has been cut short by the timeout, the
\* ledger, the wallet balance and the VTXO cache are exactly what they were
\* when the attempt began.
C18_RoundAllOrNothing ==
    (pr.pc = "returned" /\ pr.result = "Timeout")
        => <<transactions, balance, vtxo_cache>> = pr.before

----------------------------------------------------------------------------
(* Claims about the exit manager (checked under SpecExit) *)

MatchingGroups(response, id) ==
    {g \in 1..Len(response) :
        \/ response[g].address = id
        \/ \E i \in 1..Len(response[g].outpoints) : response[g].outpoints[i].outpoint = id}

HasPendingOutpoint(group) ==
    \E i \in 1..Len(group.outpoints) : group.outpoints[i].is_pending

----------------------------------------------------------------------------
(* Claims about check_exit_conditions (checked under SpecExitScan) *)

HasServerUnresponsive(recs) ==
    \E i \in 1..Len(recs) : recs[i].reason = "ServerUnresponsive" /\ recs[i].urgency = "High"

\* C22: a returned recommendation list holds a ServerUnresponsive
\* recommendation of urgency High exactly when the server is unreachable: there
\* is no session (no gRPC connection or no Ark client), the address probe
\* failed, or the probe did not answer within its timeout.
C22_UnresponsiveIffUnreachable ==
    ec.result = "Ok" =>
        LET unreachable == \/ ~ec.connected
                           \/ ~ec.client
                           \/ ec.probe = "Err"
                           \/ ec.timed_out
        IN  HasServerUnresponsive(ec.recs) <=> unreachable

NearExpiryRecs(recs, id) ==
    {i \in 1..Len(recs) : recs[i].reason = "NearExpiry" /\ recs[i].vtxo_id = id}

\* C27: after a successful fetch the scan returns, and for every outpoint of
\* the answer with r = expire_at - now it holds exactly one NearExpiry(r)
\* recommendation of urgency Critical when r <= 1800, exactly one of urgency
\* Medium when 1800 < r <= 3600, and none when r > 3600.
C27_ExpiryRecommendations ==
    ec.rpc = "Ok" =>
        /\ ec.result = "Ok"
        /\ LET outpoints == AllOutpoints(ec.response)
           IN  \A k \in 1..Len(outpoints) :
                  LET r == outpoints[k].expire_at - ec.at
                      found == NearExpiryRecs(ec.recs, outpoints[k].outpoint)
                  IN  IF r > 3600 THEN found = {}
                      ELSE /\ Cardinality(found) = 1
                           /\ \A i \in found :
                                 /\ ec.recs[i].seconds = r
                                 /\ ec.recs[i].urgency = IF r <= 1800 THEN "Critical"
                                                         ELSE "Medium"

\* C29: when the coordinator's VTXO fetch fails, check_exit_conditions
\* returns an error, not a recommendation list.
C29_FetchFailurePropagates ==
    ec.rpc = "Err" => ec.result = "Err"

----------------------------------------------------------------------------
(* Claim about emergency_exit_all (checked under SpecEmergency) *)

RECURSIVE NonPendingIds(_)
NonPendingIds(outpoints) ==
    IF outpoints = <<>> THEN <<>>
    ELSE IF Head(outpoints).is_pending THEN NonPendingIds(Tail(outpoints))
    ELSE <<Head(outpoints).outpoint>> \o NonPendingIds(Tail(outpoints))

RECURSIVE SucceededTxids(_)
SucceededTxids(attempts) ==
    IF attempts = <<>> THEN <<>>
    ELSE IF Head(attempts).ok THEN <<Head(attempts).txid>> \o SucceededTxids(Tail(attempts))
    ELSE SucceededTxids(Tail(attempts))

\* What a finished emergency_exit_all call has done after a successful fetch:
\* one attempt per non-pending outpoint, in order, and Ok with the txids of
\* the attempts that succeeded.
C21_FinishedCall ==
    (ee.pc = "done" /\ ee.rpc = "Ok") =>
        /\ [i \in 1..Len(ee.attempts) |-> ee.attempts[i].id]
               = NonPendingIds(AllOutpoints(ee.response))
        /\ ee.result = "Ok"
        /\ ee.exit_txids = SucceededTxids(ee.attempts)

\* C21: emergency_exit_all terminates (it never waits for ever inside an
\* attempt), attempts an exit exactly once for every non-pending outpoint of
\* the fetched spendable set whatever the outcome of earlier attempts, and
\* returns Ok with exactly the txids of the attempts that succeeded, in
\* attempt order.
C21_EmergencyExitAll ==
    /\ ee.pc # "blocked"
    /\ C21_FinishedCall

----------------------------------------------------------------------------
(* Claims about the change feeds (checked under SpecFeed and SpecFeedFair) *)

\* C23: once the consumer has dropped its stream, the polling task of the
\* feed eventually terminates (checked under SpecFeedFair, where the task
\* keeps being scheduled).
C23_DroppedFeedTerminates ==
    (chan.rx = "dropped") ~> (feed.pc = "done")

\* C24: a polling task never waits on its bounded queue: no send stays
\* pending because the queue is full.
C24_NeverWaitsOnFullQueue ==
    ~feed.waiting

\* The events the diff of two snapshots calls for.
ExpectedEvents(prev, current, t) ==
    {VtxoUpdate(v, "Created", t) : v \in {x \in current : x.outpoint \notin MapKeys(prev)}}
        \cup {VtxoUpdate(v, "Status", t) :
                 v \in {x \in current : x.outpoint \in MapKeys(prev) /\ x \notin prev}}
        \cup {VtxoUpdate(v, "Spent", t) : v \in {x \in prev : x.outpoint \notin MapKeys(current)}}

\* C26: when a poll of the VTXO feed whose fetch succeeded has run to its end
\* with the consumer's stream open, the events it emitted are exactly the diff
\* between the current snapshot and the previous one, keyed by outpoint id
\* (Created for a new key, Status for a changed value, Spent for a key that is
\* gone, nothing for an unchanged key, each once), and the stored snapshot is
\* the current one.
C26_FeedEmitsDiff ==
    (feed.kind = "vtxo" /\ feed.pc = "wait" /\ feed.fetched /\ chan.rx = "open") =>
        /\ {feed.emitted[i] : i \in 1..Len(feed.emitted)}
               = ExpectedEvents(feed.prev, feed.current, now)
        /\ Len(feed.emitted) = Cardinality(ExpectedEvents(feed.prev, feed.current, now))
        /\ feed.last_state = feed.current

\* A finished poll that emitted a Status event and a Spent event, and left
\* one key without an event.
C26_Witness ==
    /\ feed.kind = "vtxo"
    /\ feed.pc = "wait"
    /\ feed.fetched
    /\ chan.rx = "open"
    /\ Cardinality(feed.prev) = 2
    /\ \E i \in 1..Len(feed.emitted) : feed.emitted[i].update_type = "Status"
    /\ \E i \in 1..Len(feed.emitted) : feed.emitted[i].update_type = "Spent"

----------------------------------------------------------------------------
(* Claim about check_expiry_and_renew (checked under SpecRenew) *)

\* The groups of an answer that are not expired at time t1 and whose earliest
\* expiry is at most an hour after time t2.
RenewableGroups(response, t1, t2) ==
    {g \in 1..Len(response) :
        /\ response[g].outpoints # <<>>
        /\ MinExpiry(response[g].outpoints) > t1
        /\ MinExpiry(response[g].outpoints) - t2 <= 3600}

\* C28: check_expiry_and_renew refreshes first; after a successful refresh it
\* triggers round participation once if some VTXO that the refresh did not
\* class as expired has at most one hour left, and not at all otherwise; a
\* call that finds only expired (or far-from-expiry) VTXOs returns Ok.
C28_RenewIffNearExpiry ==
    /\ cr.joins > 0 => cr.rpc = "Ok"
    /\ cr.rpc = "Ok" =>
          LET renewable == RenewableGroups(cr.response, cr.refreshed_at, cr.checked_at)
          IN  /\ cr.joins = IF renewable # {} THEN 1 ELSE 0
              /\ renewable = {} => cr.result = "Ok"

\* A call found an expired VTXO next to one far from expiry and returned Ok
\* without joining a round.
C28_Witness ==
    /\ cr.rpc = "Ok"
    /\ cr.result = "Ok"
    /\ cr.joins = 0
    /\ Len(cr.response) = 2
    /\ \E g \in 1..2 : MinExpiry(cr.response[g].outpoints) <= cr.refreshed_at

----------------------------------------------------------------------------
(* Claim about the ledger and balance locks (checked under SpecLocks) *)

\* The tasks that have a coordinator or network call in flight.
AwaitingRpc ==
    (IF ua.pc \in {"rpc1", "rpc2", "hist"} THEN {"ua"} ELSE {})
        \cup (IF oc.pc = "fetch" THEN {"oc"} ELSE {})

\* A task waits for the balance lock in order to read the balance.
BalanceReadWaits ==
    \/ cs.pc = "lock_balance"
    \/ ga.pc \in {"lock_balance", "read"}

\* C25: a task that awaits an RPC call holds neither the ledger lock nor the
\* balance lock, so no balance read waits for a lock whose holder awaits an
\* RPC call, and no task keeps the ledger lock while it waits on such a holder.
C25_NoLockAcrossRpc ==
    /\ app_locks.transactions \notin AwaitingRpc
    /\ app_locks.balance \notin AwaitingRpc
    /\ ~(BalanceReadWaits /\ app_locks.balance \in AwaitingRpc)

----------------------------------------------------------------------------
(* Claims about the exit scripts (checked under SpecScript) *)

RECURSIVE FromLittleEndian(_)
FromLittleEndian(bytes) ==
    IF bytes = <<>> THEN 0
    ELSE Head(bytes) + 256 * FromLittleEndian(Tail(bytes))

\* The number an instruction pushes, -1 when it pushes none.
PushedNumber(instruction) ==
    IF instruction.op = "OP_0" THEN 0
    ELSE IF instruction.op = "OP_PUSHNUM" THEN instruction.data[1]
    ELSE IF instruction.op = "OP_PUSHBYTES" THEN FromLittleEndian(instruction.data)
    ELSE -1

\* The exit-path scripts of the latest call.
ExitPathScripts ==
    IF sm.op = "create_exit_script" THEN {sm.scripts[1]}
    ELSE IF sm.op = "create_vtxo_script" THEN {sm.scripts[2]}
    ELSE {}

KeysOf(script) == {script[i].key : i \in {j \in 1..Len(script) : script[j].key # ""}}

SignatureChecks(script) ==
    {i \in 1..Len(script) :
        script[i].op \in {"OP_CHECKSIG", "OP_CHECKSIGVERIFY", "OP_CHECKSIGADD"}}

\* Every exit-path script pushes the owner's key only and checks one signature.
OwnerOnly ==
    \A script \in ExitPathScripts :
        /\ KeysOf(script) = {sm.user_pk}
        /\ Cardinality(SignatureChecks(script)) = 1

----------------------------------------------------------------------------
(* Claim about the order of the wallet-state locks (checked under SpecLocks) *)

\* update_app_state holds the balance lock and waits for the ledger lock.
UaWaitsForLedger ==
    /\ ua.pc = "lock_ledger"
    /\ app_locks.balance = "ua"

\* recalculate_balance holds the ledger lock and waits for the balance lock.
GaWaitsForBalance ==
    /\ ga.pc = "lock_balance"
    /\ app_locks.transactions = "ga"

\* C31: the wallet-state locks are deadlock free: no state is reachable in
\* which recalculate_balance (ledger lock, then balance lock) and
\* update_app_state (balance lock, then ledger lock) each wait for the lock
\* the other holds.
C31_NoLockCycle ==
    ~(UaWaitsForLedger /\ GaWaitsForBalance)

----------------------------------------------------------------------------
(* Claim about create_redeem_transaction (checked under SpecRedeem) *)

\* Sum of the magnitudes of the pending outgoing entries of a ledger.
RECURSIVE PendingOutgoing(_)
PendingOutgoing(ledger) ==
    IF ledger = <<>> THEN 0
    ELSE (IF Head(ledger).is_settled = SomeFalse /\ Head(ledger).amount < 0
          THEN -Head(ledger).amount ELSE 0) + PendingOutgoing(Tail(ledger))

\* C32: for any sequence or interleaving of create_redeem_transaction calls
\* the pending outgoing entries of the ledger never sum to more than the
\* confirmed balance, so recalculate_balance counts every one of them as a
\* valid pending entry.
C32_RedeemsCovered ==
    LET recalculated == RecalculateBalance(transactions)
    IN  /\ PendingOutgoing(transactions) <= recalculated.confirmed
        /\ recalculated.trusted_pending = PendingOutgoing(transactions)

----------------------------------------------------------------------------
(* Claim about concurrent send_vtxo calls (checked under SpecSend) *)

\* Two calls passed the balance check while both were in flight, against the
\* same coordinator answer (Confirmed total C), with amounts a1 + a2 > C.
ConcurrentOverdraw(t, u) ==
    /\ t # u
    /\ snd[t].overlaps
    /\ snd[t].pc # "idle" /\ snd[u].pc # "idle"
    /\ snd[t].response = snd[u].response
    /\ snd[t].total_balance = snd[u].total_balance
    /\ snd[t].amount + snd[u].amount > snd[t].total_balance

\* C33: of two concurrent send_vtxo calls whose amounts together exceed the
\* Confirmed VTXO total both saw, at most one reaches client.send_vtxo.
C33_AtMostOneSendOnSameFunds ==
    \A t, u \in SendTasks :
        ConcurrentOverdraw(t, u) => ~(snd[t].sent /\ snd[u].sent)

----------------------------------------------------------------------------
(* Claim about the completion of check_exit_conditions (checked under SpecExitScan) *)

\* C34: check_exit_conditions returns a value for every coordinator VTXO
\* set, also when an outpoint's expire_at is earlier than now: no conversion
\* of a remaining time fails and the call never aborts.
C34_ScanNeverAborts ==
    ec.result # "panic"

----------------------------------------------------------------------------
(* Claim about failed polls of the change feeds (checked under SpecFeed) *)

\* C35: a poll whose coordinator call failed, or that found no client, emits
\* no event and leaves the feed's last snapshot unchanged: the VTXO feed
\* sends no Spent (or other) event and keeps last_state, the balance feed
\* prepares no update.
C35_FailedPollEmitsNothing ==
    /\ (feed.kind = "vtxo" /\ ~feed.fetched) =>
           /\ feed.emitted = <<>>
           /\ feed.pc = "wait" => feed.last_state = feed.prev
    /\ (feed.kind = "balance" /\ ~feed.fetched) => feed.pc # "send"

----------------------------------------------------------------------------
(* Claim about the size of the recalculated total (checked under SpecRecalc) *)

\* Sum of the positive amounts of the entries whose is_settled is Some(true)
\* or Some(false).
RECURSIVE PositiveSum(_)
PositiveSum(ledger) ==
    IF ledger = <<>> THEN 0
    ELSE (IF Head(ledger).is_settled \in {SomeTrue, SomeFalse} /\ Head(ledger).amount > 0
          THEN Head(ledger).amount ELSE 0) + PositiveSum(Tail(ledger))

EndsWithPendingOutgoing(ledger) ==
    /\ ledger # <<>>
    /\ ledger[Len(ledger)].is_settled = SomeFalse
    /\ ledger[Len(ledger)].amount < 0

\* C36: the recalculated balance is never inflated: after recalculate_balance
\* the total is at most the sum of the positive amounts of the settled and
\* pending entries, and a ledger that ends with a pending outgoing entry has
\* a total no larger than the same ledger without that entry.
C36_TotalNotInflated ==
    (last_result # NoResult) =>
        /\ last_result[1].total <= PositiveSum(transactions)
        /\ EndsWithPendingOutgoing(transactions) =>
               last_result[1].total
                   <= RecalculateBalance(SubSeq(transactions, 1, Len(transactions) - 1)).total

----------------------------------------------------------------------------
(* Claim about the txids of the ledger (checked under SpecTxids) *)

\* C37: in every reachable state the ledger holds at most one entry per
\* txid.
C37_UniqueTxids ==
    \A i, j \in 1..Len(txids) : i # j => txids[i] # txids[j]

----------------------------------------------------------------------------
(* Claim about the cache after a refresh (checked under SpecVtxo) *)

\* Sum of total_amount over the states of a returned list with a status:
\* the sums of ArkOffChainService::get_balance.
RECURSIVE StatusSum(_, _)
StatusSum(states, status) ==
    IF states = <<>> THEN 0
    ELSE (IF Head(states).status = status THEN Head(states).total_amount ELSE 0)
         + StatusSum(Tail(states), status)

\* C38: right after a successful refresh the sums computed from the cache
\* agree with the sums over the returned list (confirmed and pending of
\* get_detailed_balance equal those of get_balance), and the cache holds one
\* entry per returned VTXO group, also when groups share an address.
C38_CacheAgreesWithList ==
    ret.ok =>
        /\ BalanceBreakdown(vtxo_cache)[1] = StatusSum(ret.states, "Confirmed")
        /\ BalanceBreakdown(vtxo_cache)[2] = StatusSum(ret.states, "Pending")
        /\ Cardinality(DOMAIN vtxo_cache) = Len(ret.states)

----------------------------------------------------------------------------
(* Claim about the classification of round-join errors (checked under SpecClassify) *)

\* The outcome is the no-op Ok(None), not a failure.
IsNoOp(result) == result = "Ok(None)"

\* C39: for every error message of the round-join primitive,
\* RoundCoordinator::participate, ArkGrpcService::participate_in_round and
\* services::transactions::participate_in_round agree on whether the outcome
\* is the no-op Ok(None) or a failure Err.
C39_SameClassification ==
    cl.called =>
        /\ IsNoOp(cl.coordinator) <=> IsNoOp(cl.grpc)
        /\ IsNoOp(cl.grpc) <=> IsNoOp(cl.svc)

----------------------------------------------------------------------------
(* Claim about calculate_transaction_details (checked under SpecDetails) *)

\* The fee recomputed for the number of inputs selected, minimum included.
RecomputedFee(selected, fee_rate) ==
    LET fee == FeeVb(fee_rate, EstimateTransactionSize(Len(selected), 2))
    IN  IF fee < 160 THEN 160 ELSE fee

\* C40: calculate_transaction_details returns an error or (selected, fee,
\* change) with sum(selected) = amount + fee + change and change 0 or at
\* least 546; when the selected inputs do not cover the amount plus the fee
\* recomputed for their number it returns the insufficient-funds error; no
\* amount subtraction underflows.
C40_DetailsSound ==
    td.called =>
        /\ td.result \in {"Ok", "Err: Insufficient funds",
                          "Err: Insufficient funds after fee calculation"}
        /\ td.result = "Ok" =>
               /\ SumUtxos(td.selected) = td.amount + td.fee + td.change
               /\ td.change = 0 \/ td.change >= 546
        /\ (/\ td.selected # <<>>
            /\ SumUtxos(td.selected) < td.amount + RecomputedFee(td.selected, td.fee_rate))
               => td.result = "Err: Insufficient funds after fee calculation"

----------------------------------------------------------------------------
(* Claim about the cache lock (checked under SpecCache) *)

\* C9: whatever the interleaving of refreshes and cache readers, a finished
\* read of get_balance_breakdown or get_vtxo_by_address has observed the whole
\* content written by one finished refresh (or the initial empty cache), never
\* a cleared or partly filled cache.
C9_ReadsSeeFinishedRefresh ==
    rd.pc = "done" =>
        rd.observed = IF rd.kind = "breakdown"
                      THEN BalanceBreakdown(last_written)
                      ELSE Lookup(last_written, rd.address)

\* A breakdown read has finished with a non-zero result while one refresh
\* waits for the write lock, after an earlier refresh with two entries.
C9_Witness ==
    /\ rd.pc = "done"
    /\ rd.kind = "breakdown"
    /\ rd.visited = Addresses
    /\ rd.observed[1] > 0
    /\ \E t \in RefreshTasks : rf[t].pc = "computed"

====
